---------------------------- MODULE Spec2Model ----------------------------
(***************************************************************************)
(* Model of the soap-service macro crate: the request dispatcher and the   *)
(* envelope codec that src/src/lib.rs generates into a service module, the *)
(* operation-name derivation of src/src/parser/functions.rs and the WSDL   *)
(* generator of src/src/codegen/wsdl.rs.                                   *)
(*                                                                         *)
(* A text (Rust String / &str) is a sequence of one-character strings, so  *)
(* that find, trim, slicing and formatting are computed position by        *)
(* position as the code computes them.  Offsets are 0-based as in Rust.    *)
(* An Option<T> is a sequence of length 0 (None) or 1 (Some).              *)
(***************************************************************************)
EXTENDS Integers, Sequences, FiniteSets, TLC

VARIABLES
    config,       \* the ServiceConfig of the service
    operations,   \* the operation table extracted from the service module
    reqs,         \* per in-flight request: position in soap_handler and its result
    wsdl_runs,    \* the WSDL texts produced by the generator runs so far
    phase,        \* position of the pure-function harnesses
    arg,          \* input of the function under check
    ret           \* its result

vars == <<config, operations, reqs, wsdl_runs, phase, arg, ret>>

----------------------------------------------------------------------------
(* Bounds *)

\* number of pieces an envelope text handed to the parser is put together from
MaxPieces == 4

\* number of requests the service handles, all of which may be in flight at once
MaxRequests == 2

\* length of the function names whose operation name is derived
MaxNameLen == 4

----------------------------------------------------------------------------
(* Rust std string operations *)

NoneV == << >>
Some(x) == <<x>>
IsSome(o) == o # << >>
Unwrap(o) == o[1]

Min(S) == CHOOSE x \in S : \A y \in S : x <= y
Max(S) == CHOOSE x \in S : \A y \in S : x >= y

\* char::is_whitespace, on the characters the model uses
IsWs(c) == c \in {" ", "\n", "\t", "\r"}

\* p occurs in s at 0-based offset i
OccursAt(s, p, i) ==
    /\ i + Len(p) <= Len(s)
    /\ \A k \in 1..Len(p) : s[i + k] = p[k]

\* str::find: offset of the first occurrence of p in s
Find(s, p) ==
    LET hits == {i \in 0..(Len(s) - Len(p)) : OccursAt(s, p, i)}
    IN  IF hits = {} THEN NoneV ELSE Some(Min(hits))

\* str::rfind: offset of the last occurrence of p in s
RFind(s, p) ==
    LET hits == {i \in 0..(Len(s) - Len(p)) : OccursAt(s, p, i)}
    IN  IF hits = {} THEN NoneV ELSE Some(Max(hits))

\* str::contains
Contains(s, p) == IsSome(Find(s, p))

RECURSIVE Replace(_, _, _)
\* str::replace: every non-overlapping occurrence of from, left to right
Replace(s, from, to) ==
    IF Len(s) < Len(from) \/ s = << >> THEN s
    ELSE IF OccursAt(s, from, 0)
    THEN to \o Replace(SubSeq(s, Len(from) + 1, Len(s)), from, to)
    ELSE <<Head(s)>> \o Replace(Tail(s), from, to)

StartsWith(s, p) == OccursAt(s, p, 0)
EndsWith(s, p) == Len(p) <= Len(s) /\ OccursAt(s, p, Len(s) - Len(p))

\* &s[a..b] is defined (does not panic) iff a <= b <= len
SliceOk(s, a, b) == 0 <= a /\ a <= b /\ b <= Len(s)
Slice(s, a, b) == SubSeq(s, a + 1, b)

\* str::trim
Trim(s) ==
    LET keep == {i \in 1..Len(s) : ~IsWs(s[i])}
    IN  IF keep = {} THEN << >> ELSE SubSeq(s, Min(keep), Max(keep))

\* str::split_whitespace().next()
FirstWord(s) ==
    LET keep == {i \in 1..Len(s) : ~IsWs(s[i])}
    IN  IF keep = {} THEN NoneV
        ELSE LET b == Min(keep)
                 stop == {i \in b..Len(s) : IsWs(s[i])}
                 e == IF stop = {} THEN Len(s) ELSE Min(stop) - 1
             IN  Some(SubSeq(s, b, e))

\* str::split(c).last(): the text after the last c (all of s when c is absent)
AfterLast(s, c) ==
    LET at == {i \in 1..Len(s) : s[i] = c}
    IN  IF at = {} THEN s ELSE SubSeq(s, Max(at) + 1, Len(s))

RECURSIVE Flatten(_)
\* concatenation of a sequence of texts
Flatten(ts) == IF ts = << >> THEN << >> ELSE Head(ts) \o Flatten(Tail(ts))

----------------------------------------------------------------------------
(* Envelope codec: the parser generated by lib.rs *)

body_start_patterns ==
    << <<"<","s","o","a","p",":","B","o","d","y",">">>,
       <<"<","S","O","A","P","-","E","N","V",":","B","o","d","y",">">>,
       <<"<","B","o","d","y",">">> >>

body_end_patterns ==
    << <<"<","/","s","o","a","p",":","B","o","d","y",">">>,
       <<"<","/","S","O","A","P","-","E","N","V",":","B","o","d","y",">">>,
       <<"<","/","B","o","d","y",">">> >>

ErrBodyStart == <<"S","O","A","P"," ","B","o","d","y"," ","s","t","a","r","t"," ","t","a",
                  "g"," ","n","o","t"," ","f","o","u","n","d">>
ErrBodyEnd == <<"S","O","A","P"," ","B","o","d","y"," ","e","n","d"," ","t","a","g"," ","n",
                "o","t"," ","f","o","u","n","d">>
ErrBodyStructure == <<"I","n","v","a","l","i","d"," ","S","O","A","P"," ","B","o","d","y",
                      " ","s","t","r","u","c","t","u","r","e">>
ErrNoElement == <<"N","o"," ","X","M","L"," ","e","l","e","m","e","n","t"," ","f","o","u",
                  "n","d">>
ErrNoBracket == <<"I","n","v","a","l","i","d"," ","X","M","L",":"," ","n","o"," ","c","l",
                  "o","s","i","n","g"," ","b","r","a","c","k","e","t"," ","f","o","u","n",
                  "d">>

\* Result<_, String> values of the parser; Panic stands for an index out of
\* range in a slice expression
ParseOk(op, body, ns) ==
    [kind |-> "Ok", operation |-> op, body_xml |-> body, namespace |-> ns, error |-> << >>]
ParseErr(msg) ==
    [kind |-> "Err", operation |-> << >>, body_xml |-> << >>, namespace |-> NoneV, error |-> msg]
ParsePanic ==
    [kind |-> "Panic", operation |-> << >>, body_xml |-> << >>, namespace |-> NoneV, error |-> << >>]

\* FirstPattern trying the patterns from the last to the first
FirstPattern_reversed(xml, patterns) ==
    IF Contains(xml, patterns[3]) THEN 3
    ELSE IF Contains(xml, patterns[2]) THEN 2
    ELSE IF Contains(xml, patterns[1]) THEN 1
    ELSE 0

\* the for .. { if let Some(pos) = xml.find(pattern) { ..; break } } loops:
\* index of the first pattern, in list order, that occurs in xml (0: none)
FirstPattern(xml, patterns) ==
    IF Contains(xml, patterns[1]) THEN 1
    ELSE IF Contains(xml, patterns[2]) THEN 2
    ELSE IF Contains(xml, patterns[3]) THEN 3
    ELSE 0

\* extract_first_element_name, from the bottom up: each operator is the rest
\* of the function after the let binding named by its last parameter

\* NameOfClean keeping the namespace prefix
NameOfClean_prefixed(clean_name) == clean_name

\* let operation = if clean_name.contains(':') { .. } else { clean_name }
NameOfClean(clean_name) ==
    IF Contains(clean_name, <<":">>) THEN AfterLast(clean_name, ":") ELSE clean_name

\* let clean_name = tag_name.split_whitespace().next().unwrap_or(tag_name)
NameOfTag(tag_name, word) ==
    ParseOk(NameOfClean(IF IsSome(word) THEN Unwrap(word) ELSE tag_name), << >>, NoneV)

\* let tag_name = if tag_content.ends_with('/') { .. } else { tag_content }
NameOfContent(tag_content) ==
    IF EndsWith(tag_content, <<"/">>)
    THEN IF ~SliceOk(tag_content, 0, Len(tag_content) - 1) THEN ParsePanic
         ELSE NameOfTag(Slice(tag_content, 0, Len(tag_content) - 1),
                        FirstWord(Slice(tag_content, 0, Len(tag_content) - 1)))
    ELSE NameOfTag(tag_content, FirstWord(tag_content))

\* let tag_end = after_bracket.find('>').ok_or(..)?;  &after_bracket[..tag_end]
NameAfterBracket(after_bracket, tag_end) ==
    IF ~IsSome(tag_end) THEN ParseErr(ErrNoBracket)
    ELSE IF ~SliceOk(after_bracket, 0, Unwrap(tag_end)) THEN ParsePanic
    ELSE NameOfContent(Slice(after_bracket, 0, Unwrap(tag_end)))

\* if !xml.starts_with('<') { return Err(..) };  &xml[1..]
NameOfTrimmed(xml) ==
    IF ~StartsWith(xml, <<"<">>) THEN ParseErr(ErrNoElement)
    ELSE IF ~SliceOk(xml, 1, Len(xml)) THEN ParsePanic
    ELSE NameAfterBracket(Slice(xml, 1, Len(xml)), Find(Slice(xml, 1, Len(xml)), <<">">>))

extract_first_element_name(xml) == NameOfTrimmed(Trim(xml))

AttrTargetNamespace == <<"t","a","r","g","e","t","N","a","m","e","s","p","a","c","e","=",
                         "\"">>
AttrXmlns == <<"x","m","l","n","s","=","\"">>

\* if let Some(end) = after_start.find('"') { Some(after_start[..end]) }
AttrUpTo(after_start, end) ==
    IF IsSome(end) THEN Some(Slice(after_start, 0, Unwrap(end))) ELSE NoneV

\* if let Some(start) = xml.find(attr) { let after_start = &xml[start + n..]; .. }
AttrFrom(xml, attr, start) ==
    IF ~IsSome(start) THEN NoneV
    ELSE AttrUpTo(Slice(xml, Unwrap(start) + Len(attr), Len(xml)),
                  Find(Slice(xml, Unwrap(start) + Len(attr), Len(xml)), <<"\"">>))

AttrValue(xml, attr) == AttrFrom(xml, attr, Find(xml, attr))

\* FirstSome preferring the fallback
FirstSome_fallback(first, second) == IF IsSome(second) THEN second ELSE first

\* the targetNamespace attribute, and the default xmlns as the fallback
FirstSome(first, second) == IF IsSome(first) THEN first ELSE second

extract_target_namespace(xml) ==
    FirstSome(AttrValue(xml, AttrTargetNamespace), AttrValue(xml, AttrXmlns))

\* Ok(ParsedSoapRequest { operation, body_xml: trimmed_body, namespace })
ParsedRequest(xml, trimmed_body, first) ==
    IF first.kind # "Ok" THEN first
    ELSE ParseOk(first.operation, trimmed_body, extract_target_namespace(xml))

\* let trimmed_body = body_content.trim();  extract_first_element_name(..)?
ParseTrimmed(xml, trimmed_body) ==
    ParsedRequest(xml, trimmed_body, extract_first_element_name(trimmed_body))

\* ParseBetween without the check of the Body structure
ParseBetween_unchecked(xml, body_start, body_tag_len, body_end) ==
    IF ~SliceOk(xml, body_start + body_tag_len, body_end) THEN ParsePanic
    ELSE ParseTrimmed(xml, Trim(Slice(xml, body_start + body_tag_len, body_end)))

\* the check of the Body structure and the slice of the body content
ParseBetween(xml, body_start, body_tag_len, body_end) ==
    IF body_start + body_tag_len >= body_end THEN ParseErr(ErrBodyStructure)
    ELSE IF ~SliceOk(xml, body_start + body_tag_len, body_end) THEN ParsePanic
    ELSE ParseTrimmed(xml, Trim(Slice(xml, body_start + body_tag_len, body_end)))

\* body_start_pos.ok_or(..)?  and  body_end_pos.ok_or(..)?  ; ks and ke are
\* the patterns at which the two search loops stopped
ParseFound(xml, ks, ke) ==
    IF ks = 0 THEN ParseErr(ErrBodyStart)
    ELSE IF ke = 0 THEN ParseErr(ErrBodyEnd)
    ELSE ParseBetween(xml, Unwrap(Find(xml, body_start_patterns[ks])),
                      Len(body_start_patterns[ks]),
                      Unwrap(Find(xml, body_end_patterns[ke])))

parse_soap_envelope(xml) ==
    ParseFound(xml, FirstPattern(xml, body_start_patterns),
               FirstPattern(xml, body_end_patterns))

----------------------------------------------------------------------------
(* Envelope codec of src/src/soap/envelope.rs: parse_soap_request reads the
   events of a quick_xml Reader.  An event is a record: its type, the name
   of its element (the text of the failure for a reader error) and the
   attributes of its start tag. *)

\* number of events the reader yields before the end of the input
MaxEvents == 4

EventStart(name, attributes) == [type |-> "Start", name |-> name, attributes |-> attributes]
EventEnd(name) == [type |-> "End", name |-> name, attributes |-> << >>]
EventEmpty(name) == [type |-> "Empty", name |-> name, attributes |-> << >>]
EventText == [type |-> "Text", name |-> << >>, attributes |-> << >>]
EventEof == [type |-> "Eof", name |-> << >>, attributes |-> << >>]
\* a declaration, comment, processing instruction or doctype
EventOther == [type |-> "Other", name |-> << >>, attributes |-> << >>]
\* the reader fails: read_event_into returns Err
ReaderError(text) == [type |-> "Err", name |-> text, attributes |-> << >>]

\* reader.read_event_into: the j-th event, and Eof from the end of the input on
ReadEvent(events, j) == IF j <= Len(events) THEN events[j] ELSE EventEof

\* the Display of SoapError::ParseError and SoapError::XmlError
SoapParseError(msg) == ParseErr(<<"P","a","r","s","e"," ","e","r","r","o","r",":"," ">> \o msg)
SoapXmlError(text) == ParseErr(<<"X","M","L"," ","e","r","r","o","r",":"," ">> \o text)

ErrNoOperation == <<"N","o"," ","o","p","e","r","a","t","i","o","n"," ","f","o","u","n","d",
                    " ","i","n"," ","S","O","A","P"," ","b","o","d","y">>

\* name.ends_with(":Body") || name == "Body"
IsBodyName(name) == EndsWith(name, <<":","B","o","d","y">>) \/ name = <<"B","o","d","y">>

\* the loop over e.attributes(): the value of the last xmlns attribute
NamespaceOf(attributes) ==
    LET hits == {k \in 1..Len(attributes) : attributes[k].key = <<"x","m","l","n","s">>}
    IN  IF hits = {} THEN NoneV ELSE Some(attributes[Max(hits)].value)

\* after the loop: an empty operation is an error
RequestOf(operation, body_content, namespace) ==
    IF operation = << >> THEN SoapParseError(ErrNoOperation)
    ELSE ParseOk(operation, body_content, namespace)

RECURSIVE CaptureEvent(_, _, _, _, _, _, _)
\* the inner loop, capturing the operation element: written are the events
\* written to body_writer so far, ev is the event read at position j
CaptureEvent(events, j, ev, inner_depth, written, operation, namespace) ==
    IF ev.type = "Err" THEN SoapXmlError(ev.name)
    ELSE IF ev.type = "Start"
    THEN CaptureEvent(events, j + 1, ReadEvent(events, j + 1), inner_depth + 1,
                      Append(written, ev), operation, namespace)
    ELSE IF ev.type = "End"
    THEN IF inner_depth - 1 = 0
         THEN RequestOf(operation, Append(written, ev), namespace)
         ELSE CaptureEvent(events, j + 1, ReadEvent(events, j + 1), inner_depth - 1,
                           Append(written, ev), operation, namespace)
    ELSE IF ev.type \in {"Text", "CData", "Empty"}
    THEN CaptureEvent(events, j + 1, ReadEvent(events, j + 1), inner_depth,
                      Append(written, ev), operation, namespace)
    ELSE IF ev.type = "Eof" THEN RequestOf(operation, written, namespace)
    ELSE CaptureEvent(events, j + 1, ReadEvent(events, j + 1), inner_depth,
                      written, operation, namespace)

RECURSIVE ScanEvent(_, _, _, _, _)
\* the outer loop: ev is the event read at position i
ScanEvent(events, i, ev, in_body, body_depth) ==
    IF ev.type = "Err" THEN SoapXmlError(ev.name)
    ELSE IF ev.type = "Start"
    THEN IF IsBodyName(ev.name)
         THEN ScanEvent(events, i + 1, ReadEvent(events, i + 1), TRUE, 1)
         ELSE IF in_body /\ body_depth = 1
         THEN CaptureEvent(events, i + 1, ReadEvent(events, i + 1), 1, <<ev>>,
                           ev.name, NamespaceOf(ev.attributes))
         ELSE IF in_body
         THEN ScanEvent(events, i + 1, ReadEvent(events, i + 1), in_body, body_depth + 1)
         ELSE ScanEvent(events, i + 1, ReadEvent(events, i + 1), in_body, body_depth)
    ELSE IF ev.type = "End"
    THEN IF in_body /\ IsBodyName(ev.name)
         THEN RequestOf(<< >>, << >>, NoneV)
         ELSE IF in_body
         THEN ScanEvent(events, i + 1, ReadEvent(events, i + 1), in_body, body_depth - 1)
         ELSE ScanEvent(events, i + 1, ReadEvent(events, i + 1), in_body, body_depth)
    ELSE IF ev.type = "Eof" THEN RequestOf(<< >>, << >>, NoneV)
    ELSE ScanEvent(events, i + 1, ReadEvent(events, i + 1), in_body, body_depth)

\* parse_soap_request on the events the reader yields for its argument
parse_soap_request(events) == ScanEvent(events, 1, ReadEvent(events, 1), FALSE, 0)

----------------------------------------------------------------------------
(* Harness for the envelope parser: SpecParse *)

\* the texts envelopes are put together from
Pieces ==
    { <<"<","s","o","a","p",":","B","o","d","y",">">>, <<"<","/","s","o","a","p",":","B","o","d","y",">">>, <<"<","B","o","d","y",">">>, <<"<","/","B","o","d","y",">">>,
      <<" ">>, <<"<","A","d","d",">">>, <<"<","t",":","A","d","d","/",">">>, <<"<">>, <<">">> }

ParseInputs(max) ==
    {Flatten(ps) : ps \in UNION {[1..n -> Pieces] : n \in 0..max}}

\* the events a reader yields
Events ==
    { EventStart(<<"s","o","a","p",":","B","o","d","y">>, << >>), EventEnd(<<"s","o","a","p",":","B","o","d","y">>),
      EventStart(<<"B","o","d","y">>, << >>),
      EventStart(<<"A","d","d">>, <<[key |-> <<"x","m","l","n","s">>, value |-> <<"u","r","n",":","c","a","l","c">>]>>),
      EventEnd(<<"A","d","d">>), EventEmpty(<<"A","d","d">>), EventText, EventOther,
      EventStart(<<"t","n","s",":","A","d","d">>, <<[key |-> <<"x","m","l","n","s",":","t","n","s">>, value |-> <<"u">>]>>),
      EventEnd(<<"t","n","s",":","A","d","d">>),
      ReaderError(<<"i","l","l","-","f","o","r","m","e","d"," ","d","o","c","u","m","e","n",
                    "t">>) }

EventInputs(max) == UNION {[1..n -> Events] : n \in 0..max}

\* envelopes of the SOAP-ENV dialect, alone and together with Body tags of
\* the other dialects, and envelopes with a comment in the Body, with an
\* element after the operation element and with an element that is not closed
ParseExamples ==
    { <<"<","S","O","A","P","-","E","N","V",":","E","n","v","e","l","o","p","e",">","<","S",
        "O","A","P","-","E","N","V",":","B","o","d","y",">","<","m",":","A","d","d"," ","x",
        "m","l","n","s",":","m","=","\"","u","\"",">","<","a",">","1","<","/","a",">","<",
        "/","m",":","A","d","d",">","<","/","S","O","A","P","-","E","N","V",":","B","o","d",
        "y",">","<","/","S","O","A","P","-","E","N","V",":","E","n","v","e","l","o","p","e",
        ">">>,
      <<"<","S","O","A","P","-","E","N","V",":","B","o","d","y",">","<","A","d","d","/",
        ">">>,
      <<"<","A","d","d","/",">","<","/","S","O","A","P","-","E","N","V",":","B","o","d","y",
        ">">>,
      <<"<","B","o","d","y",">","<","S","O","A","P","-","E","N","V",":","B","o","d","y",">",
        "<","A","d","d","/",">","<","/","S","O","A","P","-","E","N","V",":","B","o","d","y",
        ">","<","/","B","o","d","y",">">>,
      <<"<","S","O","A","P","-","E","N","V",":","B","o","d","y",">"," ","<","s","o","a","p",
        ":","B","o","d","y",">","<","A","d","d","/",">","<","/","s","o","a","p",":","B","o",
        "d","y",">"," ","<","/","S","O","A","P","-","E","N","V",":","B","o","d","y",">">>,
      <<"<","s","o","a","p",":","b","o","d","y",">","<","A","d","d","/",">","<","/","s","o",
        "a","p",":","b","o","d","y",">">>,
      <<"<","s","o","a","p",":","B","o","d","y",">","<","!","-","-"," ","s","u","m"," ","-",
        "-",">","<","A","d","d",">","<","a",">","1","<","/","a",">","<","/","A","d","d",">",
        "<","/","s","o","a","p",":","B","o","d","y",">">>,
      <<"<","s","o","a","p",":","B","o","d","y",">","<","A","d","d",">","<","a",">","1","<",
        "/","a",">","<","/","A","d","d",">","<","A","u","d","i","t","/",">","<","/","s","o",
        "a","p",":","B","o","d","y",">">>,
      <<"<","s","o","a","p",":","B","o","d","y",">","<","A","d","d",">","<","a",">","1","<",
        "/","A","d","d",">","<","/","s","o","a","p",":","B","o","d","y",">">> }

NoReqs == << >>
NoConfig == << >>

\* the parser generated by lib.rs is given a text, the parser of envelope.rs
\* the events of a reader
InitParse ==
    /\ config = NoConfig
    /\ operations = << >>
    /\ reqs = NoReqs
    /\ wsdl_runs = << >>
    /\ \/ phase = "input" /\ arg \in ParseInputs(MaxPieces) \cup ParseExamples
       \/ phase = "events" /\ arg \in EventInputs(MaxEvents)
    /\ ret = ParseErr(<< >>)

ParseEnvelope ==
    /\ phase = "input"
    /\ ret' = parse_soap_envelope(arg)
    /\ phase' = "parsed"
    /\ UNCHANGED <<config, operations, reqs, wsdl_runs, arg>>

ParseRequest ==
    /\ phase = "events"
    /\ ret' = parse_soap_request(arg)
    /\ phase' = "read"
    /\ UNCHANGED <<config, operations, reqs, wsdl_runs, arg>>

NextParse == ParseEnvelope \/ ParseRequest

SpecParse == InitParse /\ [][NextParse]_vars

----------------------------------------------------------------------------
(* Operation model: src/src/parser/functions.rs *)

Lower == <<"a","b","c","d","e","f","g","h","i","j","k","l","m",
           "n","o","p","q","r","s","t","u","v","w","x","y","z">>
Upper == <<"A","B","C","D","E","F","G","H","I","J","K","L","M",
           "N","O","P","Q","R","S","T","U","V","W","X","Y","Z">>

\* char::to_uppercase: the upper-case form of c as a text (ASCII letters map
\* to their capital, every other character of the model to itself)
to_uppercase(c) ==
    IF \E k \in 1..Len(Lower) : Lower[k] = c
    THEN <<Upper[CHOOSE k \in 1..Len(Lower) : Lower[k] = c]>>
    ELSE <<c>>

RECURSIVE Split(_, _)
\* str::split(c): the texts between the occurrences of c, empty ones included
Split(s, c) ==
    LET at == {i \in 1..Len(s) : s[i] = c}
    IN  IF at = {} THEN <<s>>
        ELSE <<SubSeq(s, 1, Min(at) - 1)>> \o Split(SubSeq(s, Min(at) + 1, Len(s)), c)

\* the closure of the map: first.to_uppercase() + chars.as_str()
CapitalizeWord(word) ==
    IF word = << >> THEN << >> ELSE to_uppercase(Head(word)) \o Tail(word)

\* generate_operation_name producing camelCase: the first word is left as
\* it is written
generate_operation_name_camel(function_name) ==
    LET words == Split(function_name, "_")
    IN  Head(words) \o Flatten([k \in 1..(Len(words) - 1) |-> CapitalizeWord(words[k + 1])])

generate_operation_name(function_name) ==
    LET words == Split(function_name, "_")
    IN  Flatten([k \in 1..Len(words) |-> CapitalizeWord(words[k])])

\* Result<_, syn::Error> of the definition-time functions
DefOk(v) == [ok |-> TRUE, val |-> v]
DefErr == [ok |-> FALSE, val |-> << >>]

is_valid_soap_function(func) == func.public /\ func.asyncness

\* extract_request_type without its check of the number of parameters
extract_request_type_first(func) ==
    IF func.inputs = << >> THEN DefErr
    ELSE IF func.inputs[1].receiver THEN DefErr
    ELSE DefOk(func.inputs[1].ty)

extract_request_type(func) ==
    IF Len(func.inputs) # 1 THEN DefErr
    ELSE IF func.inputs[1].receiver THEN DefErr
    ELSE DefOk(func.inputs[1].ty)

TResult == <<"R","e","s","u","l","t">>

extract_return_types(func) ==
    IF ~func.output.present THEN DefErr
    ELSE IF /\ func.output.path
            /\ func.output.last_ident = Some(TResult)
            /\ func.output.bracketed
            /\ Len(func.output.args) = 2
    THEN IF ~func.output.args[1].is_type THEN DefErr
         ELSE IF ~func.output.args[2].is_type THEN DefErr
         ELSE DefOk(<<func.output.args[1].ty, func.output.args[2].ty>>)
    ELSE DefErr

parse_soap_function(func) ==
    LET request_type == extract_request_type(func)
        return_types == extract_return_types(func)
    IN  IF ~request_type.ok THEN DefErr
        ELSE IF ~return_types.ok THEN DefErr
        ELSE DefOk([name |-> generate_operation_name(func.ident),
                    function_name |-> func.ident,
                    request_type |-> request_type.val,
                    response_type |-> return_types.val[1]])

RECURSIVE extract_soap_operations(_)
\* the loop over the items of the module: a function that is not public or
\* not async is skipped, the first invalid signature aborts the extraction
extract_soap_operations(items) ==
    IF items = << >> THEN DefOk(<< >>)
    ELSE IF ~is_valid_soap_function(Head(items)) THEN extract_soap_operations(Tail(items))
    ELSE LET operation == parse_soap_function(Head(items))
             rest == extract_soap_operations(Tail(items))
         IN  IF ~operation.ok THEN DefErr
             ELSE IF ~rest.ok THEN DefErr
             ELSE DefOk(<<operation.val>> \o rest.val)

\* a syn::Type: a path type with its segments, or another kind of type
TypePath(segments) == [path |-> TRUE, segments |-> segments]
TypeReference(elem) == [path |-> FALSE, segments |-> elem.segments]
TypeTuple == [path |-> FALSE, segments |-> << >>]

TAddRequest == TypePath(<<<<"A","d","d","R","e","q","u","e","s","t">>>>)
TAddResponse == TypePath(<<<<"A","d","d","R","e","s","p","o","n","s","e">>>>)
TMultiplyRequest == TypePath(<<<<"M","u","l","t","i","p","l","y","R","e","q","u","e","s",
                                 "t">>>>)
TMultiplyResponse == TypePath(<<<<"M","u","l","t","i","p","l","y","R","e","s","p","o","n",
                                  "s","e">>>>)
TServiceError == TypePath(<<<<"S","e","r","v","i","c","e","E","r","r","o","r">>>>)

\* a syn::GenericArgument: a type, or a lifetime or another argument
GenericType(ty) == [is_type |-> TRUE, ty |-> ty]
GenericLifetime == [is_type |-> FALSE, ty |-> << >>]

\* a syn::ReturnType: none written (Default), a path type with the identifier
\* of its last segment and that segment's arguments, or another type
ReturnDefault ==
    [present |-> FALSE, path |-> FALSE, last_ident |-> NoneV, bracketed |-> FALSE,
     args |-> << >>]
ReturnPath(last_ident, bracketed, args) ==
    [present |-> TRUE, path |-> TRUE, last_ident |-> Some(last_ident),
     bracketed |-> bracketed, args |-> args]
ReturnOther ==
    [present |-> TRUE, path |-> FALSE, last_ident |-> NoneV, bracketed |-> FALSE,
     args |-> << >>]

\* a syn::FnArg: a typed parameter or a self receiver
FnArgTyped(ty) == [receiver |-> FALSE, ty |-> ty]
FnArgReceiver == [receiver |-> TRUE, ty |-> << >>]

\* a pub async fn ident(req: request) -> Result<response, ServiceError>
SoapFn(ident, request, response) ==
    [ident |-> ident, public |-> TRUE, asyncness |-> TRUE,
     inputs |-> <<FnArgTyped(request)>>,
     output |-> ReturnPath(TResult, TRUE,
                           <<GenericType(response), GenericType(TServiceError)>>)]

\* a private helper function of a service module
HelperFn(ident) ==
    [ident |-> ident, public |-> FALSE, asyncness |-> FALSE,
     inputs |-> << >>, output |-> ReturnDefault]

\* the items of the calculator example's module
CalculatorItems == <<SoapFn(<<"a","d","d">>, TAddRequest, TAddResponse)>>

\* the items of a module with a private helper, a second operation and two
\* handlers that derive the same operation name
NumbersItems ==
    <<SoapFn(<<"a","d","d">>, TAddRequest, TAddResponse),
      HelperFn(<<"s","u","b","t","r","a","c","t">>),
      SoapFn(<<"m","u","l","t","i","p","l","y","_","n","u","m","b","e","r","s">>, TMultiplyRequest, TMultiplyResponse),
      SoapFn(<<"a","d","d","_","n","u","m","b","e","r","s">>, TAddRequest, TAddResponse),
      SoapFn(<<"a","d","d","_","_","n","u","m","b","e","r","s">>, TAddRequest, TAddResponse)>>

ServiceModules == {CalculatorItems, NumbersItems}

\* the ServiceConfig of the #[service(...)] attribute of the calculator example
CalculatorConfig ==
    [namespace |-> <<"h","t","t","p",":","/","/","e","x","a","m","p","l","e",".","c","o",
                     "m","/","c","a","l","c","u","l","a","t","o","r">>,
     service_name |-> <<"C","a","l","c","u","l","a","t","o","r","S","e","r","v","i","c",
                        "e">>,
     port_name |-> <<"C","a","l","c","u","l","a","t","o","r","P","o","r","t">>,
     bind_path |-> <<"/","s","o","a","p","/","c","a","l","c","u","l","a","t","o","r">>]

\* the ServiceConfig of the math example
MathConfig ==
    [namespace |-> <<"h","t","t","p",":","/","/","e","x","a","m","p","l","e",".","c","o",
                     "m","/","m","a","t","h">>,
     service_name |-> <<"M","a","t","h","S","e","r","v","i","c","e">>,
     port_name |-> <<"M","a","t","h","P","o","r","t">>,
     bind_path |-> <<"/","s","o","a","p","/","m","a","t","h">>]

ServiceConfigs == {CalculatorConfig, MathConfig}

\* the service definitions the router is generated for: an attribute with
\* the module it is written on
Services ==
    { [config |-> CalculatorConfig, items |-> CalculatorItems],
      [config |-> MathConfig, items |-> NumbersItems] }

----------------------------------------------------------------------------
(* Envelope codec: response and fault construction generated by lib.rs *)

\* the pieces of the format string of create_simple_soap_response, cut at its {}
ResponseTemplate1 ==
    <<"<","?","x","m","l"," ","v","e","r","s","i","o","n","=","\"","1",".","0","\""," ","e",
      "n","c","o","d","i","n","g","=","\"","U","T","F","-","8","\"","?",">","\n","<","s",
      "o","a","p",":","E","n","v","e","l","o","p","e"," ","x","m","l","n","s",":","s","o",
      "a","p","=","\"","h","t","t","p",":","/","/","s","c","h","e","m","a","s",".","x","m",
      "l","s","o","a","p",".","o","r","g","/","s","o","a","p","/","e","n","v","e","l","o",
      "p","e","/","\"","\n"," "," "," "," "," "," "," "," "," "," "," "," "," "," "," ","x",
      "m","l","n","s",":","t","n","s","=","\"">>

ResponseTemplate2 ==
    <<"\"",">","\n"," "," "," "," ","<","s","o","a","p",":","B","o","d","y",">","\n"," ",
      " "," "," "," "," "," "," ","<","t","n","s",":">>

ResponseTemplate3 ==
    <<"R","e","s","p","o","n","s","e",">","\n"," "," "," "," "," "," "," "," "," "," "," ",
      " ">>

ResponseTemplate4 ==
    <<"\n"," "," "," "," "," "," "," "," ","<","/","t","n","s",":">>

ResponseTemplate5 ==
    <<"R","e","s","p","o","n","s","e",">","\n"," "," "," "," ","<","/","s","o","a","p",":",
      "B","o","d","y",">","\n","<","/","s","o","a","p",":","E","n","v","e","l","o","p","e",
      ">">>

\* the pieces of the format string of create_soap_fault, cut at its {}
FaultTemplate1 ==
    <<"<","?","x","m","l"," ","v","e","r","s","i","o","n","=","\"","1",".","0","\""," ","e",
      "n","c","o","d","i","n","g","=","\"","U","T","F","-","8","\"","?",">","\n","<","s",
      "o","a","p",":","E","n","v","e","l","o","p","e"," ","x","m","l","n","s",":","s","o",
      "a","p","=","\"","h","t","t","p",":","/","/","s","c","h","e","m","a","s",".","x","m",
      "l","s","o","a","p",".","o","r","g","/","s","o","a","p","/","e","n","v","e","l","o",
      "p","e","/","\"",">","\n"," "," "," "," ","<","s","o","a","p",":","B","o","d","y",">",
      "\n"," "," "," "," "," "," "," "," ","<","s","o","a","p",":","F","a","u","l","t",">",
      "\n"," "," "," "," "," "," "," "," "," "," "," "," ","<","f","a","u","l","t","c","o",
      "d","e",">","S","e","r","v","e","r","<","/","f","a","u","l","t","c","o","d","e",">",
      "\n"," "," "," "," "," "," "," "," "," "," "," "," ","<","f","a","u","l","t","s","t",
      "r","i","n","g",">">>

FaultTemplate2 ==
    <<"<","/","f","a","u","l","t","s","t","r","i","n","g",">","\n"," "," "," "," "," "," ",
      " "," ","<","/","s","o","a","p",":","F","a","u","l","t",">","\n"," "," "," "," ","<",
      "/","s","o","a","p",":","B","o","d","y",">","\n","<","/","s","o","a","p",":","E","n",
      "v","e","l","o","p","e",">">>

\* create_simple_soap_response with the first two format arguments swapped
create_simple_soap_response_swapped(content, operation, ns) ==
    ResponseTemplate1 \o operation \o ResponseTemplate2 \o ns \o ResponseTemplate3
        \o content \o ResponseTemplate4 \o operation \o ResponseTemplate5

create_simple_soap_response(content, operation, ns) ==
    ResponseTemplate1 \o ns \o ResponseTemplate2 \o operation \o ResponseTemplate3
        \o content \o ResponseTemplate4 \o operation \o ResponseTemplate5

create_soap_fault(error) == FaultTemplate1 \o error \o FaultTemplate2

\* the chain of replace calls of decode_xml_content, in its order
decode_xml_content(content) ==
    Replace(Replace(Replace(Replace(Replace(content,
        <<"&","l","t",";">>, <<"<">>), <<"&","g","t",";">>, <<">">>), <<"&","a","m","p",";">>, <<"&">>),
        <<"&","q","u","o","t",";">>, <<"\"">>), <<"&","a","p","o","s",";">>, <<"'">>)

----------------------------------------------------------------------------
(* Dispatcher: soap_handler and handle_soap_request generated by lib.rs *)

\* Result<T, String>
ROk(v) == [ok |-> TRUE, val |-> v, err |-> << >>]
RErr(e) == [ok |-> FALSE, val |-> << >>, err |-> e]
\* no call was made
NoCall == [ok |-> FALSE, val |-> << >>, err |-> <<"-">>]

MsgUnknownOperation == <<"U","n","k","n","o","w","n"," ","o","p","e","r","a","t","i","o",
                         "n",":"," ">>
MsgParseRequest == <<"F","a","i","l","e","d"," ","t","o"," ","p","a","r","s","e"," ","r",
                     "e","q","u","e","s","t",":"," ">>
MsgOperationFailed == <<"O","p","e","r","a","t","i","o","n"," ","f","a","i","l","e","d",":",
                        " ">>
MsgSerializeResponse == <<"F","a","i","l","e","d"," ","t","o"," ","s","e","r","i","a","l",
                          "i","z","e"," ","r","e","s","p","o","n","s","e",":"," ">>
MsgDeserialization == <<"X","M","L"," ","d","e","s","e","r","i","a","l","i","z","a","t","i",
                        "o","n"," ","e","r","r","o","r",":"," ">>
MsgForXml == <<" ","f","o","r"," ","X","M","L",":"," ">>
MsgSerialization == <<"X","M","L"," ","s","e","r","i","a","l","i","z","a","t","i","o","n",
                      " ","e","r","r","o","r",":"," ">>

\* lib is what serde_xml_rs::from_str returned for xml
parse_request_from_xml(xml, lib) ==
    IF lib.ok THEN ROk(lib.val)
    ELSE RErr(MsgDeserialization \o lib.err \o MsgForXml \o xml)

\* lib is what serde_xml_rs::to_string returned for the response
serialize_response_to_xml(lib) ==
    IF lib.ok THEN ROk(lib.val) ELSE RErr(MsgSerialization \o lib.err)

\* MatchOperation comparing the names without regard to the case of the
\* first letter
MatchOperation_anycase(ops, operation) ==
    LET hit == {i \in 1..Len(ops) : ops[i].name = CapitalizeWord(operation)}
    IN  IF hit = {} THEN 0 ELSE Min(hit)

\* MatchOperation entering the last block written for the name
MatchOperation_last(ops, operation) ==
    LET hit == {i \in 1..Len(ops) : ops[i].name = operation}
    IN  IF hit = {} THEN 0 ELSE Max(hit)

\* the chain of  if operation == #op_name { .. return .. }  blocks, in the
\* order of the operation table: index of the block entered (0: none)
MatchOperation(ops, operation) ==
    LET hit == {i \in 1..Len(ops) : ops[i].name = operation}
    IN  IF hit = {} THEN 0 ELSE Min(hit)

\* handle_soap_request runs in two parts: from its entry to the await of
\* the handler (or to a return that comes before it), and from the
\* completion of the handler to its return.  The first part yields next:
\* "return" (result is the value returned), "await" (the handler of
\* operation `matched` was called) or "panic"; stages lists the stages run.

\* Deserialized without the early return: the handler is called although
\* the request could not be deserialized
Deserialized_unchecked(matched, request_data) ==
    [next |-> "await", result |-> NoCall, matched |-> matched,
     stages |-> <<"parse", "lookup", "deserialize", "invoke">>]

\* let request_data = match parse_request_from_xml(&body_content) { .. };
\* #func_name(request_data).await
Deserialized(matched, request_data) ==
    IF ~request_data.ok
    THEN [next |-> "return", result |-> RErr(MsgParseRequest \o request_data.err),
          matched |-> matched, stages |-> <<"parse", "lookup", "deserialize">>]
    ELSE [next |-> "await", result |-> NoCall, matched |-> matched,
          stages |-> <<"parse", "lookup", "deserialize", "invoke">>]

\* #operation_handlers, then  Err(format!("Unknown operation: {}", operation))
Dispatched(parsed_request, de, matched) ==
    IF matched = 0
    THEN [next |-> "return",
          result |-> RErr(MsgUnknownOperation \o parsed_request.operation),
          matched |-> 0, stages |-> <<"parse", "lookup">>]
    ELSE Deserialized(matched, parse_request_from_xml(parsed_request.body_xml, de))

\* let parsed_request = parse_soap_envelope(xml)?;
Parsed(ops, de, parsed_request) ==
    IF parsed_request.kind = "Panic"
    THEN [next |-> "panic", result |-> NoCall, matched |-> 0, stages |-> <<"parse">>]
    ELSE IF parsed_request.kind = "Err"
    THEN [next |-> "return", result |-> RErr(parsed_request.error), matched |-> 0,
          stages |-> <<"parse">>]
    ELSE Dispatched(parsed_request, de, MatchOperation(ops, parsed_request.operation))

\* the first part together with the local parsed_request it computed
Begun(ops, de, parsed_request) ==
    [parsed_request |-> parsed_request, step |-> Parsed(ops, de, parsed_request)]

handle_soap_request_begin(ops, xml, de) == Begun(ops, de, parse_soap_envelope(xml))

\* let response_xml = match serialize_response_to_xml(&result) { .. };
\* return Ok(create_simple_soap_response(&response_xml, #op_name, #namespace))
Serialized(op, ns, response_xml) ==
    IF ~response_xml.ok
    THEN [result |-> RErr(MsgSerializeResponse \o response_xml.err),
          stages |-> <<"serialize">>]
    ELSE [result |-> ROk(create_simple_soap_response(response_xml.val, op.name, ns)),
          stages |-> <<"serialize", "envelope">>]

\* handle_soap_request_resume without the map_err: the handler's error is
\* returned as it is
handle_soap_request_resume_bare(op, ns, res, ser) ==
    IF ~res.ok
    THEN [result |-> RErr(res.err), stages |-> << >>]
    ELSE Serialized(op, ns, serialize_response_to_xml(ser))

\* let result = #func_name(request_data).await.map_err(..)?;  res is what the
\* handler returned, ser what the serializer returns if it is called
handle_soap_request_resume(op, ns, res, ser) ==
    IF ~res.ok
    THEN [result |-> RErr(MsgOperationFailed \o res.err), stages |-> << >>]
    ELSE Serialized(op, ns, serialize_response_to_xml(ser))

\* soap_handler with the Err arm answering like the Ok arm: the error is
\* dropped and the request answered with status 200
soap_handler_swallow(result) ==
    [status |-> 200, body |-> IF result.ok THEN result.val ELSE << >>]

\* the match of soap_handler on the result of handle_soap_request
soap_handler(result) ==
    IF result.ok
    THEN [status |-> 200, body |-> result.val]
    ELSE [status |-> 500, body |-> create_soap_fault(result.err)]

----------------------------------------------------------------------------
(* The service at run time: Spec *)

Requests == 1..MaxRequests

EnvOpen == <<"<","s","o","a","p",":","E","n","v","e","l","o","p","e"," ","x","m","l","n",
             "s",":","s","o","a","p","=","\"","h","t","t","p",":","/","/","s","c","h","e",
             "m","a","s",".","x","m","l","s","o","a","p",".","o","r","g","/","s","o","a",
             "p","/","e","n","v","e","l","o","p","e","/","\"",">">>
EnvClose == <<"<","/","s","o","a","p",":","E","n","v","e","l","o","p","e",">">>

\* the request bodies POSTed to the service
RequestTexts ==
    { EnvOpen \o <<"<","s","o","a","p",":","B","o","d","y",">","<","A","d","d",">","<","O",
                   "p","e","r","a","n","d","1",">","2","<","/","O","p","e","r","a","n","d",
                   "1",">","<","O","p","e","r","a","n","d","2",">","3","<","/","O","p","e",
                   "r","a","n","d","2",">","<","/","A","d","d",">","<","/","s","o","a","p",
                   ":","B","o","d","y",">">>
          \o EnvClose,
      <<"<","S","O","A","P","-","E","N","V",":","B","o","d","y",">","\n"," "," ","<","t",
        "n","s",":","M","u","l","t","i","p","l","y","N","u","m","b","e","r","s"," ","x","m",
        "l","n","s",":","t","n","s","=","\"","u","\"","/",">","\n","<","/","S","O","A","P",
        "-","E","N","V",":","B","o","d","y",">">>,
      <<"<","s","o","a","p",":","B","o","d","y",">","<","A","d","d","N","u","m","b","e","r",
        "s",">","<","O","p","e","r","a","n","d","1",">","x","<","/","O","p","e","r","a","n",
        "d","1",">","<","/","A","d","d","N","u","m","b","e","r","s",">","<","/","s","o","a",
        "p",":","B","o","d","y",">">>,
      <<"<","s","o","a","p",":","B","o","d","y",">","<","S","u","b","t","r","a","c","t",">",
        "<","a",">","1","<","/","a",">","<","/","S","u","b","t","r","a","c","t",">","<","/",
        "s","o","a","p",":","B","o","d","y",">">>,
      <<"<","B","o","d","y",">","<","a","d","d","/",">","<","/","B","o","d","y",">">>,
      <<"<","B","o","d","y",">","<","a","<","&","b","/",">","<","/","B","o","d","y",">">>,
      EnvOpen \o <<"<","s","o","a","p",":","B","o","d","y",">","<","/","s","o","a","p",":",
                   "B","o","d","y",">">> \o EnvClose,
      <<"<","s","o","a","p",":","B","o","d","y",">"," ","\n"," ","<","/","s","o","a","p",
        ":","B","o","d","y",">">>,
      <<"<","s","o","a","p",":","E","n","v","e","l","o","p","e","/",">">> }

\* what the deserializer of the serde_xml_rs crate returns for a body
\* fragment: a request value or an error
LibDeOutcomes == { ROk(<<"r","e","q","u","e","s","t">>), RErr(<<"m","i","s","s","i","n","g"," ","f","i","e","l",
                                            "d"," ","O","p","e","r","a","n","d","1">>) }

\* what the handler function returns: a response value or a domain error
\* (its Display text)
HandlerOutcomes ==
    { ROk(<<"5">>), ROk(<<"1","2">>),
      RErr(<<"C","a","n","n","o","t"," ","a","d","d"," ","t","w","o"," ","z","e","r","o",
             "s">>), RErr(<<"a","<","b"," ","&"," ","c",">","d">>) }

\* what the serializer of the serde_xml_rs crate returns for a response
\* value v of type ty: its XML rendering, or an error when fails
lib_to_string(ty, v, fails) ==
    IF fails THEN RErr(<<"u","n","s","u","p","p","o","r","t","e","d"," ","v","a","l","u",
                         "e">>)
    ELSE ROk(<<"<">> \o ty.segments[Len(ty.segments)] \o <<">","<","R","e","s","u","l","t",">">> \o v
                 \o <<"<","/","R","e","s","u","l","t",">","<","/">> \o ty.segments[Len(ty.segments)] \o <<">">>)

\* no envelope has been parsed
NotParsed ==
    [kind |-> "None", operation |-> << >>, body_xml |-> << >>, namespace |-> NoneV,
     error |-> << >>]

IdleReq ==
    [pc |-> "idle", xml |-> << >>, parsed |-> NotParsed,
     de |-> NoCall, res |-> NoCall, ser |-> NoCall,
     matched |-> 0, stages |-> << >>, invoked |-> << >>, result |-> NoCall,
     status |-> 0, body |-> << >>, sent |-> 0]

\* soap_handler builds the response from the result of handle_soap_request
\* and returns it to the transport
Responded(rec, result, response) ==
    [rec EXCEPT !.pc = "done", !.result = result, !.status = response.status,
                !.body = response.body, !.sent = @ + 1]

Respond(rec, result) == Responded(rec, result, soap_handler(result))

\* the request record after the first part b of handle_soap_request
Called(rec, ops, xml, de, b) ==
    IF b.next = "await"
    THEN [rec EXCEPT !.pc = "awaiting", !.xml = xml, !.de = de, !.matched = b.matched,
                     !.stages = b.stages,
                     !.invoked = <<ops[b.matched].function_name>>]
    ELSE IF b.next = "panic"
    THEN [rec EXCEPT !.pc = "panicked", !.xml = xml, !.stages = b.stages]
    ELSE Respond([rec EXCEPT !.xml = xml,
                             !.de = IF Len(b.stages) >= 3 THEN de ELSE NoCall,
                             !.matched = b.matched, !.stages = b.stages],
                 b.result)

\* the request record after the first part of handle_soap_request, with
\* the parsed request it worked on
Received(rec, ops, xml, de, begun) ==
    Called([rec EXCEPT !.parsed = begun.parsed_request], ops, xml, de, begun.step)

\* the request record after the second part e of handle_soap_request
Returned(rec, res, ser, e) ==
    Respond([rec EXCEPT !.res = res, !.ser = ser, !.stages = @ \o e.stages], e.result)

\* the serializer is called only with the value of a handler that succeeded
SerializerCall(op, res, fails) ==
    IF res.ok THEN lib_to_string(op.response_type, res.val, fails) ELSE NoCall

\* completion of the handler of op with res
Completed(rec, op, ns, res, ser) ==
    Returned(rec, res, ser, handle_soap_request_resume(op, ns, res, ser))

Init ==
    /\ \E service \in Services :
           /\ config = service.config
           /\ operations = extract_soap_operations(service.items).val
    /\ reqs = [r \in Requests |-> IdleReq]
    /\ wsdl_runs = << >>
    /\ phase = "serve"
    /\ arg = << >>
    /\ ret = << >>

\* SoapHandlerCall keeping the operation it matched in one place shared by
\* the requests: the handlers that are awaited are taken for handlers of the
\* operation matched last
SoapHandlerCall_shared(r, xml, de) ==
    /\ reqs[r].pc = "idle"
    /\ reqs' = [q \in DOMAIN reqs |->
           IF q = r
           THEN Received(reqs[q], operations, xml, de,
                         handle_soap_request_begin(operations, xml, de))
           ELSE IF reqs[q].pc = "awaiting"
                   /\ handle_soap_request_begin(operations, xml, de).step.matched # 0
           THEN [reqs[q] EXCEPT !.matched =
                    handle_soap_request_begin(operations, xml, de).step.matched]
           ELSE reqs[q]]
    /\ UNCHANGED <<config, operations, wsdl_runs, phase, arg, ret>>

\* a POST arrives with body xml; soap_handler runs handle_soap_request up to
\* its first return or to the await of the matched handler
SoapHandlerCall(r, xml, de) ==
    /\ reqs[r].pc = "idle"
    /\ reqs' = [reqs EXCEPT ![r] =
           Received(@, operations, xml, de, handle_soap_request_begin(operations, xml, de))]
    /\ UNCHANGED <<config, operations, wsdl_runs, phase, arg, ret>>

\* the handler awaited by request r completes with res; handle_soap_request
\* runs to its return and soap_handler answers
HandlerReturn(r, res, fails) ==
    /\ reqs[r].pc = "awaiting"
    /\ reqs' = [reqs EXCEPT ![r] =
           Completed(@, operations[reqs[r].matched], config.namespace, res,
                     SerializerCall(operations[reqs[r].matched], res, fails))]
    /\ UNCHANGED <<config, operations, wsdl_runs, phase, arg, ret>>

Next ==
    \E r \in Requests :
        \/ \E xml \in RequestTexts, de \in LibDeOutcomes : SoapHandlerCall(r, xml, de)
        \/ \E res \in HandlerOutcomes, fails \in BOOLEAN : HandlerReturn(r, res, fails)

Spec == Init /\ [][Next]_vars

----------------------------------------------------------------------------
(* Harness for the operation name derivation: SpecName *)

NameAlphabet == {"a", "d", "H", "_", "1"}

\* the function names: every text over the alphabet up to the bound, and the
\* names of the handlers of the examples
NameInputs(max) ==
    UNION {[1..n -> NameAlphabet] : n \in 0..max}
        \cup { <<"a","d","d">>, <<"m","u","l","t","i","p","l","y","_","n","u","m","b","e","r","s">>, <<"g","e","t","_","H","T","T","P","S","t","a",
                                                "t","u","s">>, <<"a","d","d","_","_","n","u","m","b",
                                                                    "e","r","s">> }

InitName ==
    /\ config = NoConfig
    /\ operations = << >>
    /\ reqs = NoReqs
    /\ wsdl_runs = << >>
    /\ phase = "input"
    /\ arg \in NameInputs(MaxNameLen)
    /\ ret = << >>

DeriveName ==
    /\ phase = "input"
    /\ ret' = generate_operation_name(arg)
    /\ phase' = "named"
    /\ UNCHANGED <<config, operations, reqs, wsdl_runs, arg>>

NextName == DeriveName

SpecName == InitName /\ [][NextName]_vars

----------------------------------------------------------------------------
(* Type catalog (src/src/parser/types.rs) and WSDL generator
   (src/src/codegen/wsdl.rs) *)

\* number of times the WSDL of one service definition is generated
MaxWsdlRuns == 2

TUnknown == <<"U","n","k","n","o","w","n">>

\* types.rs extract_type_name: the identifier of the last path segment
extract_type_name(type_path) ==
    IF type_path.segments = << >> THEN TUnknown
    ELSE type_path.segments[Len(type_path.segments)]

\* a TypeInfo without fields is what analyze_type builds for a path type;
\* any other type is an error
analyze_type(ty) ==
    IF ty.path
    THEN DefOk([name |-> extract_type_name(ty), fields |-> << >>, namespace |-> NoneV])
    ELSE DefErr

\* the variants of FieldType
FieldTypeString == [kind |-> "String"]
FieldTypeI32 == [kind |-> "I32"]
FieldTypeI64 == [kind |-> "I64"]
FieldTypeF32 == [kind |-> "F32"]
FieldTypeF64 == [kind |-> "F64"]
FieldTypeBool == [kind |-> "Bool"]
FieldTypeOptional(inner) == [kind |-> "Optional", inner |-> inner]
FieldTypeVec(inner) == [kind |-> "Vec", inner |-> inner]
FieldTypeCustom(name) == [kind |-> "Custom", name |-> name]

RECURSIVE FieldTypeDisplay(_)
\* the text the formatting of a FieldType writes ({} in generate_schema_types)
FieldTypeDisplay(field_type) ==
    CASE field_type.kind = "String" -> <<"x","s","d",":","s","t","r","i","n","g">>
      [] field_type.kind = "I32" -> <<"x","s","d",":","i","n","t">>
      [] field_type.kind = "I64" -> <<"x","s","d",":","l","o","n","g">>
      [] field_type.kind = "F32" -> <<"x","s","d",":","f","l","o","a","t">>
      [] field_type.kind = "F64" -> <<"x","s","d",":","d","o","u","b","l","e">>
      [] field_type.kind = "Bool" -> <<"x","s","d",":","b","o","o","l","e","a","n">>
      [] field_type.kind = "Custom" -> <<"t","n","s",":">> \o field_type.name \o <<"T","y","p","e">>
      [] OTHER -> FieldTypeDisplay(field_type.inner)

\* HashMap::insert: the entry of key replaces an earlier entry of that key
Insert(types, key, value) ==
    [k \in DOMAIN types \cup {key} |-> IF k = key THEN value ELSE types[k]]

EmptyMap == [k \in {} |-> << >>]

CollectResponse(types, request_type_info, response_type_info) ==
    IF ~response_type_info.ok THEN DefErr
    ELSE DefOk(Insert(Insert(types, request_type_info.val.name, request_type_info.val),
                      response_type_info.val.name, response_type_info.val))

CollectRequest(types, request_type_info, operation) ==
    IF ~request_type_info.ok THEN DefErr
    ELSE CollectResponse(types, request_type_info, analyze_type(operation.response_type))

RECURSIVE CollectFrom(_, _)
\* the loop of collect_types_from_operations over the operations from the
\* k-th on, the ? operator returning the first error
CollectFrom(ops, types) ==
    IF ops = << >> THEN DefOk(types)
    ELSE LET step == CollectRequest(types, analyze_type(Head(ops).request_type), Head(ops))
         IN  IF ~step.ok THEN DefErr ELSE CollectFrom(Tail(ops), step.val)

collect_types_from_operations(ops) == CollectFrom(ops, EmptyMap)

\* wsdl.rs extract_type_name of a syn::Type
wsdl_extract_type_name(ty) ==
    IF ty.path /\ ty.segments # << >> THEN ty.segments[Len(ty.segments)] ELSE TUnknown

\* one field of a complex type
SchemaField(field) ==
       <<" "," "," "," "," "," "," "," "," "," "," "," "," "," "," "," "," "," "," "," ",
         "<","x","s","d",":","e","l","e","m","e","n","t"," ","n","a","m","e","=","\"">> \o field.xml_name
        \o <<"\""," ","t","y","p","e","=","\"">> \o FieldTypeDisplay(field.field_type)
        \o <<"\"">> \o (IF field.optional THEN <<" ","m","i","n","O","c","c","u","r","s","=",
                                              "\"","0","\"">> ELSE << >>)
        \o <<"/",">">> \o <<"\n">>

\* the element and the complex type of one catalog entry
SchemaType(type_name, type_info) ==
       <<" "," "," "," "," "," "," "," "," "," "," "," ","<","x","s","d",":","e","l","e",
         "m","e","n","t"," ","n","a","m","e","=","\"">> \o type_name
        \o <<"\""," ","t","y","p","e","=","\"","t","n","s",":">> \o type_name
        \o <<"T","y","p","e","\"","/",">","\n"," "," "," "," "," "," "," "," "," "," "," ",
             " ","<","x","s","d",":","c","o","m","p","l","e","x","T","y","p","e"," ","n",
             "a","m","e","=","\"">> \o type_name
        \o <<"T","y","p","e","\"",">","\n"," "," "," "," "," "," "," "," "," "," "," "," ",
             " "," "," "," ","<","x","s","d",":","s","e","q","u","e","n","c","e",">","\n">>
        \o Flatten([k \in 1..Len(type_info.fields) |-> SchemaField(type_info.fields[k])])
        \o <<" "," "," "," "," "," "," "," "," "," "," "," "," "," "," "," ","<","/","x",
             "s","d",":","s","e","q","u","e","n","c","e",">","\n"," "," "," "," "," "," ",
             " "," "," "," "," "," ","<","/","x","s","d",":","c","o","m","p","l","e","x",
             "T","y","p","e",">","\n">>

\* generate_schema_types visiting the entries of the map in the order iter,
\* a sequence of its keys
generate_schema_types(types, iter) ==
    Flatten([k \in 1..Len(iter) |-> SchemaType(iter[k], types[iter[k]])])

Message(operation) ==
       <<" "," "," "," ","<","m","e","s","s","a","g","e"," ","n","a","m","e","=","\"">> \o operation.name
        \o <<"R","e","q","u","e","s","t","\"",">","\n"," "," "," "," "," "," "," "," ","<",
             "p","a","r","t"," ","n","a","m","e","=","\"","p","a","r","a","m","e","t","e",
             "r","s","\""," ","e","l","e","m","e","n","t","=","\"","t","n","s",":">>
        \o wsdl_extract_type_name(operation.request_type)
        \o <<"\"","/",">","\n"," "," "," "," ","<","/","m","e","s","s","a","g","e",">","\n",
             " "," "," "," ","\n"," "," "," "," ","<","m","e","s","s","a","g","e"," ","n",
             "a","m","e","=","\"">>
        \o operation.name
        \o <<"R","e","s","p","o","n","s","e","\"",">","\n"," "," "," "," "," "," "," "," ",
             "<","p","a","r","t"," ","n","a","m","e","=","\"","p","a","r","a","m","e","t",
             "e","r","s","\""," ","e","l","e","m","e","n","t","=","\"","t","n","s",":">>
        \o wsdl_extract_type_name(operation.response_type)
        \o <<"\"","/",">","\n"," "," "," "," ","<","/","m","e","s","s","a","g","e",">","\n",
             " "," "," "," ","\n">>

generate_messages(ops) == Flatten([k \in 1..Len(ops) |-> Message(ops[k])])

PortOperation(operation) ==
       <<" "," "," "," "," "," "," "," ","<","o","p","e","r","a","t","i","o","n"," ","n",
         "a","m","e","=","\"">> \o operation.name
        \o <<"\"",">","\n"," "," "," "," "," "," "," "," "," "," "," "," ","<","i","n","p",
             "u","t"," ","m","e","s","s","a","g","e","=","\"","t","n","s",":">> \o operation.name
        \o <<"R","e","q","u","e","s","t","\"","/",">","\n"," "," "," "," "," "," "," "," ",
             " "," "," "," ","<","o","u","t","p","u","t"," ","m","e","s","s","a","g","e",
             "=","\"","t","n","s",":">> \o operation.name
        \o <<"R","e","s","p","o","n","s","e","\"","/",">","\n"," "," "," "," "," "," "," ",
             " ","<","/","o","p","e","r","a","t","i","o","n",">","\n">>

\* generate_port_type writing the operations last to first
generate_port_type_reversed(cfg, ops) ==
    <<" "," "," "," ","<","p","o","r","t","T","y","p","e"," ","n","a","m","e","=","\"">> \o cfg.port_name
        \o <<"\"",">","\n">>
        \o Flatten([k \in 1..Len(ops) |-> PortOperation(ops[Len(ops) + 1 - k])])
        \o <<" "," "," "," ","<","/","p","o","r","t","T","y","p","e",">","\n">>

generate_port_type(cfg, ops) ==
       <<" "," "," "," ","<","p","o","r","t","T","y","p","e"," ","n","a","m","e","=","\"">> \o cfg.port_name
        \o <<"\"",">","\n">>
        \o Flatten([k \in 1..Len(ops) |-> PortOperation(ops[k])])
        \o <<" "," "," "," ","<","/","p","o","r","t","T","y","p","e",">","\n">>

\* BindingOperation with the action built from the name of the function
BindingOperation_function(cfg, operation) ==
       <<" "," "," "," "," "," "," "," ","<","o","p","e","r","a","t","i","o","n"," ","n",
         "a","m","e","=","\"">> \o operation.name
        \o <<"\"",">","\n"," "," "," "," "," "," "," "," "," "," "," "," ","<","s","o","a",
             "p",":","o","p","e","r","a","t","i","o","n"," ","s","o","a","p","A","c","t",
             "i","o","n","=","\"">>
        \o cfg.namespace \o <<"/">> \o operation.function_name
        \o <<"\"","/",">","\n"," "," "," "," "," "," "," "," "," "," "," "," ","<","i","n",
             "p","u","t",">","\n"," "," "," "," "," "," "," "," "," "," "," "," "," "," ",
             " "," ","<","s","o","a","p",":","b","o","d","y"," ","u","s","e","=","\"","l",
             "i","t","e","r","a","l","\"","/",">","\n"," "," "," "," "," "," "," "," "," ",
             " "," "," ","<","/","i","n","p","u","t",">","\n"," "," "," "," "," "," "," ",
             " "," "," "," "," ","<","o","u","t","p","u","t",">","\n"," "," "," "," "," ",
             " "," "," "," "," "," "," "," "," "," "," ","<","s","o","a","p",":","b","o",
             "d","y"," ","u","s","e","=","\"","l","i","t","e","r","a","l","\"","/",">","\n",
             " "," "," "," "," "," "," "," "," "," "," "," ","<","/","o","u","t","p","u",
             "t",">","\n"," "," "," "," "," "," "," "," ","<","/","o","p","e","r","a","t",
             "i","o","n",">","\n">>

BindingOperation(cfg, operation) ==
       <<" "," "," "," "," "," "," "," ","<","o","p","e","r","a","t","i","o","n"," ","n",
         "a","m","e","=","\"">> \o operation.name
        \o <<"\"",">","\n"," "," "," "," "," "," "," "," "," "," "," "," ","<","s","o","a",
             "p",":","o","p","e","r","a","t","i","o","n"," ","s","o","a","p","A","c","t",
             "i","o","n","=","\"">>
        \o cfg.namespace \o <<"/">> \o operation.name
        \o <<"\"","/",">","\n"," "," "," "," "," "," "," "," "," "," "," "," ","<","i","n",
             "p","u","t",">","\n"," "," "," "," "," "," "," "," "," "," "," "," "," "," ",
             " "," ","<","s","o","a","p",":","b","o","d","y"," ","u","s","e","=","\"","l",
             "i","t","e","r","a","l","\"","/",">","\n"," "," "," "," "," "," "," "," "," ",
             " "," "," ","<","/","i","n","p","u","t",">","\n"," "," "," "," "," "," "," ",
             " "," "," "," "," ","<","o","u","t","p","u","t",">","\n"," "," "," "," "," ",
             " "," "," "," "," "," "," "," "," "," "," ","<","s","o","a","p",":","b","o",
             "d","y"," ","u","s","e","=","\"","l","i","t","e","r","a","l","\"","/",">","\n",
             " "," "," "," "," "," "," "," "," "," "," "," ","<","/","o","u","t","p","u",
             "t",">","\n"," "," "," "," "," "," "," "," ","<","/","o","p","e","r","a","t",
             "i","o","n",">","\n">>

generate_binding(cfg, ops) ==
       <<" "," "," "," ","<","b","i","n","d","i","n","g"," ","n","a","m","e","=","\"">> \o cfg.service_name
        \o <<"B","i","n","d","i","n","g">>
        \o <<"\""," ","t","y","p","e","=","\"","t","n","s",":">>
        \o cfg.port_name
        \o <<"\"",">","\n"," "," "," "," "," "," "," "," ","<","s","o","a","p",":","b","i",
             "n","d","i","n","g"," ","s","t","y","l","e","=","\"","d","o","c","u","m","e",
             "n","t","\""," ","t","r","a","n","s","p","o","r","t","=","\"","h","t","t","p",
             ":","/","/","s","c","h","e","m","a","s",".","x","m","l","s","o","a","p",".",
             "o","r","g","/","s","o","a","p","/","h","t","t","p","\"","/",">","\n">>
        \o Flatten([k \in 1..Len(ops) |-> BindingOperation(cfg, ops[k])])
        \o <<" "," "," "," ","<","/","b","i","n","d","i","n","g",">","\n">>

generate_service(cfg) ==
       <<" "," "," "," ","<","s","e","r","v","i","c","e"," ","n","a","m","e","=","\"">> \o cfg.service_name
        \o <<"\"",">","\n"," "," "," "," "," "," "," "," ","<","p","o","r","t"," ","n","a",
             "m","e","=","\"">> \o cfg.port_name
        \o <<"\""," ","b","i","n","d","i","n","g","=","\"","t","n","s",":">> \o cfg.service_name
        \o <<"B","i","n","d","i","n","g">>
        \o <<"\"",">","\n"," "," "," "," "," "," "," "," "," "," "," "," ","<","s","o","a",
             "p",":","a","d","d","r","e","s","s"," ","l","o","c","a","t","i","o","n","=",
             "\"","h","t","t","p",":","/","/","l","o","c","a","l","h","o","s","t",":","8",
             "0","8","0">>
        \o cfg.bind_path
        \o <<"\"","/",">","\n"," "," "," "," "," "," "," "," ","<","/","p","o","r","t",">",
             "\n"," "," "," "," ","<","/","s","e","r","v","i","c","e",">">>

generate_wsdl(cfg, ops, types, iter) ==
       <<"<","?","x","m","l"," ","v","e","r","s","i","o","n","=","\"","1",".","0","\""," ",
         "e","n","c","o","d","i","n","g","=","\"","U","T","F","-","8","\"","?",">","\n","<",
         "d","e","f","i","n","i","t","i","o","n","s"," ","x","m","l","n","s","=","\"","h",
         "t","t","p",":","/","/","s","c","h","e","m","a","s",".","x","m","l","s","o","a",
         "p",".","o","r","g","/","w","s","d","l","/","\"","\n"," "," "," "," "," "," "," ",
         " "," "," "," "," "," ","x","m","l","n","s",":","s","o","a","p","=","\"","h","t",
         "t","p",":","/","/","s","c","h","e","m","a","s",".","x","m","l","s","o","a","p",
         ".","o","r","g","/","w","s","d","l","/","s","o","a","p","/","\"","\n"," "," "," ",
         " "," "," "," "," "," "," "," "," "," ","x","m","l","n","s",":","t","n","s","=",
         "\"">> \o cfg.namespace
        \o <<"\"","\n"," "," "," "," "," "," "," "," "," "," "," "," "," ","x","m","l","n",
             "s",":","x","s","d","=","\"","h","t","t","p",":","/","/","w","w","w",".","w",
             "3",".","o","r","g","/","2","0","0","1","/","X","M","L","S","c","h","e","m",
             "a","\"","\n"," "," "," "," "," "," "," "," "," "," "," "," "," ","t","a","r",
             "g","e","t","N","a","m","e","s","p","a","c","e","=","\"">> \o cfg.namespace
        \o <<"\"","\n"," "," "," "," "," "," "," "," "," "," "," "," "," ","e","l","e","m",
             "e","n","t","F","o","r","m","D","e","f","a","u","l","t","=","\"","q","u","a",
             "l","i","f","i","e","d","\"",">","\n","\n"," "," "," "," ","<","t","y","p","e",
             "s",">","\n"," "," "," "," "," "," "," "," ","<","x","s","d",":","s","c","h",
             "e","m","a"," ","t","a","r","g","e","t","N","a","m","e","s","p","a","c","e",
             "=","\"">> \o cfg.namespace
        \o <<"\""," ","e","l","e","m","e","n","t","F","o","r","m","D","e","f","a","u","l",
             "t","=","\"","q","u","a","l","i","f","i","e","d","\"",">","\n">>
        \o generate_schema_types(types, iter)
        \o <<"\n"," "," "," "," "," "," "," "," ","<","/","x","s","d",":","s","c","h","e",
             "m","a",">","\n"," "," "," "," ","<","/","t","y","p","e","s",">","\n","\n">>
        \o generate_messages(ops)
        \o <<"\n","\n">>
        \o generate_port_type(cfg, ops)
        \o <<"\n","\n">>
        \o generate_binding(cfg, ops)
        \o <<"\n","\n">>
        \o generate_service(cfg)
        \o <<"\n","\n","<","/","d","e","f","i","n","i","t","i","o","n","s",">">>

----------------------------------------------------------------------------
(* Harness for the WSDL generation: SpecWsdl *)

\* the catalog generate_enhanced_module hands to generate_wsdl: the collected
\* types, or an empty map when collecting them fails
CollectedTypes(collected) == IF collected.ok THEN collected.val ELSE EmptyMap

\* the orders in which iterating a HashMap can visit its entries: the hasher
\* of each map is seeded at random, so every order of the keys is possible
IterationOrders(types) ==
    {iter \in [1..Cardinality(DOMAIN types) -> DOMAIN types] :
        \A i, j \in DOMAIN iter : iter[i] = iter[j] => i = j}

\* the modules whose WSDL is generated: the service modules, and the
\* calculator with its request taken by reference, with a tuple as its
\* request, with types written with their module path, and with two request
\* types of the same name from different modules
WsdlModules ==
    ServiceModules \cup
        { <<SoapFn(<<"a","d","d">>, TypeReference(TAddRequest), TAddResponse)>>,
          <<SoapFn(<<"a","d","d">>, TypeTuple, TAddResponse)>>,
          <<SoapFn(<<"a","d","d">>, TypePath(<<<<"t","y","p","e","s">>, <<"A","d","d","R","e","q","u","e","s",
                                                    "t">>>>), TAddResponse),
            SoapFn(<<"m","u","l","t","i","p","l","y">>, TMultiplyRequest, TAddResponse)>>,
          <<SoapFn(<<"a","d","d">>, TypePath(<<<<"v","1">>, <<"A","d","d","R","e","q","u","e","s","t">>>>), TAddResponse),
            SoapFn(<<"s","c","a","l","e">>, TypePath(<<<<"v","2">>, <<"A","d","d","R","e","q","u","e","s","t">>>>), TAddResponse)>> }

InitWsdl ==
    /\ config \in ServiceConfigs
    /\ operations \in {extract_soap_operations(m).val : m \in WsdlModules}
    /\ reqs = NoReqs
    /\ wsdl_runs = << >>
    /\ phase = "expand"
    /\ arg = << >>
    /\ ret = << >>

\* one expansion of the service attribute: generate_enhanced_module collects
\* the types into a new map and generates the WSDL content from it
GenerateWsdl(types) ==
    /\ phase = "expand"
    /\ Len(wsdl_runs) < MaxWsdlRuns
    /\ \E iter \in IterationOrders(types) :
           wsdl_runs' = Append(wsdl_runs, generate_wsdl(config, operations, types, iter))
    /\ UNCHANGED <<config, operations, reqs, phase, arg, ret>>

NextWsdl == GenerateWsdl(CollectedTypes(collect_types_from_operations(operations)))

SpecWsdl == InitWsdl /\ [][NextWsdl]_vars

-----------------------------------------------------------------------------
(* Attributes of #[service(...)] (src/src/parser/attributes.rs) *)

\* number of attributes of one #[service(...)]
MaxAttrs == 4

\* Result<_, syn::Error> of the attribute parser, with the error's message
AttrOk(v) == [ok |-> TRUE, val |-> v, error |-> << >>]
AttrErr(msg) == [ok |-> FALSE, val |-> << >>, error |-> msg]

\* one name = expr of the attribute list; literal tells a string literal
\* from any other expression
ServiceAttribute(name, literal, value) ==
    [name |-> name, literal |-> literal, value |-> value]

AttrNamespace == <<"n","a","m","e","s","p","a","c","e">>
AttrServiceName == <<"s","e","r","v","i","c","e","_","n","a","m","e">>
AttrPortName == <<"p","o","r","t","_","n","a","m","e">>
AttrBindPath == <<"b","i","n","d","_","p","a","t","h">>

\* char::is_ascii_alphabetic and char::is_ascii_alphanumeric
is_ascii_alphabetic(c) ==
    c \in {"a","b","c","d","e","f","g","h","i","j","k","l","m","n","o","p","q","r","s",
           "t","u","v","w","x","y","z","A","B","C","D","E","F","G","H","I","J","K","L",
           "M","N","O","P","Q","R","S","T","U","V","W","X","Y","Z"}
is_ascii_alphanumeric(c) ==
    is_ascii_alphabetic(c) \/ c \in {"0","1","2","3","4","5","6","7","8","9"}

validate_namespace(namespace) ==
    IF namespace = << >> THEN AttrErr(<<"N","a","m","e","s","p","a","c","e"," ","c","a","n",
                                        "n","o","t"," ","b","e"," ","e","m","p","t","y">>)
    ELSE IF ~StartsWith(namespace, <<"h","t","t","p",":","/","/">>) /\ ~StartsWith(namespace, <<"h","t","t","p","s",":","/","/">>)
    THEN AttrErr(<<"N","a","m","e","s","p","a","c","e"," ","m","u","s","t"," ","b","e"," ",
                   "a"," ","v","a","l","i","d"," ","U","R","I"," ","s","t","a","r","t","i",
                   "n","g"," ","w","i","t","h"," ","h","t","t","p",":","/","/"," ","o","r",
                   " ","h","t","t","p","s",":","/","/">>)
    ELSE AttrOk(<< >>)

\* validate_identifier without its check of the characters after the first
validate_identifier_start(name, field_name) ==
    IF name = << >> THEN AttrErr(field_name \o <<" ","c","a","n","n","o","t"," ","b","e",
                                                 " ","e","m","p","t","y">>)
    ELSE IF ~is_ascii_alphabetic(name[1]) /\ ~StartsWith(name, <<"_">>)
    THEN AttrErr(field_name \o <<" ","m","u","s","t"," ","s","t","a","r","t"," ","w","i",
                                 "t","h"," ","a"," ","l","e","t","t","e","r"," ","o","r",
                                 " ","u","n","d","e","r","s","c","o","r","e">>)
    ELSE AttrOk(<< >>)

validate_identifier(name, field_name) ==
    IF name = << >> THEN AttrErr(field_name \o <<" ","c","a","n","n","o","t"," ","b","e",
                                                 " ","e","m","p","t","y">>)
    ELSE IF ~is_ascii_alphabetic(name[1]) /\ ~StartsWith(name, <<"_">>)
    THEN AttrErr(field_name \o <<" ","m","u","s","t"," ","s","t","a","r","t"," ","w","i",
                                 "t","h"," ","a"," ","l","e","t","t","e","r"," ","o","r",
                                 " ","u","n","d","e","r","s","c","o","r","e">>)
    ELSE IF ~(\A i \in 1..Len(name) : is_ascii_alphanumeric(name[i]) \/ name[i] = "_")
    THEN AttrErr(field_name
                 \o <<" ","m","u","s","t"," ","c","o","n","t","a","i","n"," ","o","n","l",
                      "y"," ","a","l","p","h","a","n","u","m","e","r","i","c"," ","c","h",
                      "a","r","a","c","t","e","r","s"," ","a","n","d"," ","u","n","d","e",
                      "r","s","c","o","r","e","s">>)
    ELSE AttrOk(<< >>)

validate_bind_path(path) ==
    IF ~StartsWith(path, <<"/">>) THEN AttrErr(<<"b","i","n","d","_","p","a","t","h"," ",
                                                 "m","u","s","t"," ","s","t","a","r","t",
                                                 " ","w","i","t","h"," ","'","/","'">>)
    ELSE IF path = <<"/">> THEN AttrErr(<<"b","i","n","d","_","p","a","t","h"," ","c","a",
                                          "n","n","o","t"," ","b","e"," ","j","u","s","t",
                                          " ","'","/","'">>)
    ELSE AttrOk(<< >>)

\* the four Option<String> of parse_service_attributes before any attribute
NoAttributes ==
    [namespace |-> NoneV, service_name |-> NoneV, port_name |-> NoneV,
     bind_path |-> NoneV]

\* the end of parse_service_attributes: the four ok_or_else, in their order
RequireAttributes(found) ==
    IF ~IsSome(found.namespace)
    THEN AttrErr(<<"M","i","s","s","i","n","g"," ","r","e","q","u","i","r","e","d"," ","a",
                   "t","t","r","i","b","u","t","e",":"," ","n","a","m","e","s","p","a","c",
                   "e">>)
    ELSE IF ~IsSome(found.service_name)
    THEN AttrErr(<<"M","i","s","s","i","n","g"," ","r","e","q","u","i","r","e","d"," ","a",
                   "t","t","r","i","b","u","t","e",":"," ","s","e","r","v","i","c","e","_",
                   "n","a","m","e">>)
    ELSE IF ~IsSome(found.port_name)
    THEN AttrErr(<<"M","i","s","s","i","n","g"," ","r","e","q","u","i","r","e","d"," ","a",
                   "t","t","r","i","b","u","t","e",":"," ","p","o","r","t","_","n","a","m",
                   "e">>)
    ELSE IF ~IsSome(found.bind_path)
    THEN AttrErr(<<"M","i","s","s","i","n","g"," ","r","e","q","u","i","r","e","d"," ","a",
                   "t","t","r","i","b","u","t","e",":"," ","b","i","n","d","_","p","a","t",
                   "h">>)
    ELSE AttrOk([namespace |-> Unwrap(found.namespace),
                 service_name |-> Unwrap(found.service_name),
                 port_name |-> Unwrap(found.port_name),
                 bind_path |-> Unwrap(found.bind_path)])

\* the validation of one attribute: the arms of the match on its name
ValidateAttribute(attr) ==
    IF attr.name = AttrNamespace THEN validate_namespace(attr.value)
    ELSE IF attr.name = AttrServiceName
    THEN validate_identifier(attr.value, AttrServiceName)
    ELSE IF attr.name = AttrPortName THEN validate_identifier(attr.value, AttrPortName)
    ELSE IF attr.name = AttrBindPath THEN validate_bind_path(attr.value)
    ELSE AttrErr(<<"U","n","k","n","o","w","n"," ","a","t","t","r","i","b","u","t","e",":",
                   " ">> \o attr.name)

\* the assignment of the arm of a valid attribute
StoreAttribute(found, attr) ==
    IF attr.name = AttrNamespace THEN [found EXCEPT !.namespace = Some(attr.value)]
    ELSE IF attr.name = AttrServiceName
    THEN [found EXCEPT !.service_name = Some(attr.value)]
    ELSE IF attr.name = AttrPortName THEN [found EXCEPT !.port_name = Some(attr.value)]
    ELSE [found EXCEPT !.bind_path = Some(attr.value)]

RECURSIVE ReadAttributes(_, _, _)
\* the loop of parse_service_attributes from attribute i on, with the values
\* found so far
ReadAttributes(attrs, i, found) ==
    IF i > Len(attrs) THEN RequireAttributes(found)
    ELSE IF ~ValidateAttribute(attrs[i]).ok THEN ValidateAttribute(attrs[i])
    ELSE ReadAttributes(attrs, i + 1, StoreAttribute(found, attrs[i]))

\* Parse for ServiceAttribute, over the list: the first expression that is
\* not a string literal is an error
ParseServiceAttributes(attrs) ==
    IF \E i \in 1..Len(attrs) : ~attrs[i].literal
    THEN AttrErr(<<"E","x","p","e","c","t","e","d"," ","s","t","r","i","n","g"," ","l","i",
                   "t","e","r","a","l">>)
    ELSE AttrOk(attrs)

parse_service_attributes(args) ==
    IF ~ParseServiceAttributes(args).ok THEN ParseServiceAttributes(args)
    ELSE ReadAttributes(args, 1, NoAttributes)

\* the attributes written in the model's #[service(...)] lists
Attributes ==
    {ServiceAttribute(AttrNamespace, TRUE, v) :
        v \in {<< >>, <<"u","r","n",":","a">>, <<"h","t","t","p",":","/","/","a">>, <<"h","t","t","p","s",":","/","/","a">>}}
    \cup {ServiceAttribute(AttrServiceName, TRUE, v) :
        v \in {<< >>, <<"1","a">>, <<"a","-","b">>, <<"C","a","l","c">>, <<"_","a","1">>}}
    \cup {ServiceAttribute(AttrPortName, TRUE, v) : v \in {<< >>, <<"a"," ","b">>, <<"P","o","r","t">>}}
    \cup {ServiceAttribute(AttrBindPath, TRUE, v) : v \in {<<"/">>, <<"s","o","a","p">>, <<"/","s","o","a","p">>}}
    \cup {ServiceAttribute(<<"t","i","m","e","o","u","t">>, TRUE, <<"5">>),
          ServiceAttribute(AttrNamespace, FALSE, <<"4","2">>)}

\* the lists of n attributes
AttrInputs(n) == [1..n -> Attributes]

InitAttr ==
    /\ config = NoConfig
    /\ operations = << >>
    /\ reqs = NoReqs
    /\ wsdl_runs = << >>
    /\ phase = "attrs"
    /\ \E n \in 0..MaxAttrs : arg \in AttrInputs(n)
    /\ ret = << >>

\* the first step of the macro service: its arguments are parsed
ParseAttributes ==
    /\ phase = "attrs"
    /\ ret' = parse_service_attributes(arg)
    /\ phase' = "config"
    /\ UNCHANGED <<config, operations, reqs, wsdl_runs, arg>>

NextAttr == ParseAttributes

SpecAttr == InitAttr /\ [][NextAttr]_vars

-----------------------------------------------------------------------------
(* Extraction of the operations of a module (src/src/parser/functions.rs) *)

\* number of functions of one module
MaxFns == 2

TOption == <<"O","p","t","i","o","n">>

\* an item fn of a module
ItemFn(ident, public, asyncness, inputs, output) ==
    [ident |-> ident, public |-> public, asyncness |-> asyncness, inputs |-> inputs,
     output |-> output]

ResultOf(response) ==
    ReturnPath(TResult, TRUE, <<GenericType(response), GenericType(TServiceError)>>)

\* the functions written in the model's modules: the two handlers of the
\* examples, functions that are not public or not async, and public async
\* functions with each kind of parameter list and of return type
Functions ==
    {SoapFn(<<"a","d","d">>, TAddRequest, TAddResponse),
     SoapFn(<<"m","u","l","t","i","p","l","y","_","n","u","m","b","e","r","s">>, TMultiplyRequest, TMultiplyResponse),
     HelperFn(<<"s","u","b","t","r","a","c","t">>),
     ItemFn(<<"c","h","e","c","k">>, FALSE, TRUE, << >>, ReturnDefault),
     ItemFn(<<"s","c","a","l","e">>, TRUE, FALSE, <<FnArgTyped(TAddRequest), FnArgTyped(TAddRequest)>>,
            ReturnOther),
     ItemFn(<<"p","i","n","g">>, TRUE, TRUE, << >>, ResultOf(TAddResponse)),
     ItemFn(<<"s","u","m">>, TRUE, TRUE, <<FnArgTyped(TAddRequest), FnArgTyped(TAddRequest)>>,
            ResultOf(TAddResponse)),
     ItemFn(<<"g","e","t">>, TRUE, TRUE, <<FnArgReceiver>>, ResultOf(TAddResponse)),
     ItemFn(<<"n","o","t","i","f","y">>, TRUE, TRUE, <<FnArgTyped(TAddRequest)>>, ReturnDefault),
     ItemFn(<<"f","i","n","d">>, TRUE, TRUE, <<FnArgTyped(TAddRequest)>>,
            ReturnPath(TOption, TRUE, <<GenericType(TAddResponse)>>)),
     ItemFn(<<"r","e","a","d">>, TRUE, TRUE, <<FnArgTyped(TAddRequest)>>,
            ReturnPath(TResult, TRUE, <<GenericType(TAddResponse)>>)),
     ItemFn(<<"r","u","n">>, TRUE, TRUE, <<FnArgTyped(TAddRequest)>>,
            ReturnPath(TResult, FALSE, << >>)),
     ItemFn(<<"b","o","r","r","o","w">>, TRUE, TRUE, <<FnArgTyped(TAddRequest)>>,
            ReturnPath(TResult, TRUE, <<GenericType(TAddResponse), GenericLifetime>>)),
     ItemFn(<<"p","a","i","r">>, TRUE, TRUE, <<FnArgTyped(TAddRequest)>>, ReturnOther)}

\* the modules of n functions
ModuleInputs(n) == [1..n -> Functions]

InitOps ==
    /\ config = NoConfig
    /\ operations = << >>
    /\ reqs = NoReqs
    /\ wsdl_runs = << >>
    /\ phase = "module"
    /\ \E n \in 0..MaxFns : arg \in ModuleInputs(n)
    /\ ret = << >>

\* the second step of the macro service: the operations of the module are
\* extracted
ExtractOperations ==
    /\ phase = "module"
    /\ ret' = extract_soap_operations(arg)
    /\ phase' = "operations"
    /\ UNCHANGED <<config, operations, reqs, wsdl_runs, arg>>

NextOps == ExtractOperations

SpecOps == InitOps /\ [][NextOps]_vars

-----------------------------------------------------------------------------
(* The router with its two routes: SpecServe *)

\* the module of a service with two operations on the types of the
\* calculator example, a private helper, a private async function, a
\* public function that is not async, and a third handler whose name derives
\* the operation name of the second
AddersItems ==
    <<SoapFn(<<"a","d","d">>, TAddRequest, TAddResponse),
      HelperFn(<<"s","u","b","t","r","a","c","t">>),
      ItemFn(<<"c","h","e","c","k">>, FALSE, TRUE, <<FnArgTyped(TAddRequest)>>, ResultOf(TAddResponse)),
      SoapFn(<<"a","d","d","_","n","u","m","b","e","r","s">>, TAddRequest, TAddResponse),
      ItemFn(<<"s","c","a","l","e">>, TRUE, FALSE, <<FnArgTyped(TAddRequest)>>, ResultOf(TAddResponse)),
      SoapFn(<<"a","d","d","_","_","n","u","m","b","e","r","s">>, TAddRequest, TAddResponse)>>

RoutedServices ==
    { [config |-> CalculatorConfig, items |-> CalculatorItems],
      [config |-> MathConfig, items |-> AddersItems] }

\* the request bodies POSTed to the router: a call in an envelope with no
\* namespace, the same call in an envelope with a targetNamespace and a
\* default namespace, a call of the second operation in an envelope with a
\* default namespace, and a call of no operation
RoutedTexts ==
    { <<"<","s","o","a","p",":","E","n","v","e","l","o","p","e"," ","x","m","l","n","s",":",
        "s","o","a","p","=","\"","e","\"",">","<","s","o","a","p",":","B","o","d","y",">",
        "<","A","d","d",">","<","a",">","1","<","/","a",">","<","/","A","d","d",">","<","/",
        "s","o","a","p",":","B","o","d","y",">">>
          \o EnvClose,
      <<"<","s","o","a","p",":","E","n","v","e","l","o","p","e"," ","x","m","l","n","s","=",
        "\"","u","r","n",":","b","\""," ","t","a","r","g","e","t","N","a","m","e","s","p",
        "a","c","e","=","\"","u","r","n",":","a","\"",">","<","s","o","a","p",":","B","o",
        "d","y",">","<","A","d","d",">","<","a",">","1","<","/","a",">","<","/","A","d","d",
        ">","<","/","s","o","a","p",":","B","o","d","y",">">>
          \o EnvClose,
      <<"<","E","n","v","e","l","o","p","e"," ","x","m","l","n","s","=","\"","u","r","n",
        ":","b","\"",">","<","B","o","d","y",">","<","t","n","s",":","A","d","d","N","u",
        "m","b","e","r","s"," ","x","m","l","n","s",":","t","n","s","=","\"","u","\"","/",
        ">","<","/","B","o","d","y",">","<","/","E","n","v","e","l","o","p","e",">">>,
      <<"<","s","o","a","p",":","B","o","d","y",">","<","S","u","b","t","r","a","c","t","/",
        ">","<","/","s","o","a","p",":","B","o","d","y",">">> }

RoutedOutcomes == { ROk(<<"5">>), RErr(<<"C","a","n","n","o","t"," ","a","d","d"," ","t","w",
                                       "o"," ","z","e","r","o","s">>) }

\* the response of wsdl_handler, wsdl being the text embedded in it
wsdl_handler(wsdl) == [status |-> 200, body |-> wsdl]

\* the macro has expanded the module: the WSDL text is generated once and
\* embedded in the router's code
InitServe ==
    /\ \E service \in RoutedServices :
           /\ config = service.config
           /\ operations = extract_soap_operations(service.items).val
    /\ reqs = [r \in Requests |-> IdleReq]
    /\ \E iter \in IterationOrders(
                       CollectedTypes(collect_types_from_operations(operations))) :
           wsdl_runs =
               <<generate_wsdl(config, operations,
                               CollectedTypes(collect_types_from_operations(operations)),
                               iter)>>
    /\ phase = "serve"
    /\ arg = << >>
    /\ ret = << >>

\* a GET arrives on the WSDL route
WsdlHandlerCall ==
    /\ phase = "serve"
    /\ ret' = wsdl_handler(wsdl_runs[1])
    /\ UNCHANGED <<config, operations, reqs, wsdl_runs, phase, arg>>

NextServe ==
    \/ \E r \in Requests :
          \/ \E xml \in RoutedTexts, de \in LibDeOutcomes : SoapHandlerCall(r, xml, de)
          \/ \E res \in RoutedOutcomes, fails \in BOOLEAN : HandlerReturn(r, res, fails)
    \/ WsdlHandlerCall

SpecServe == InitServe /\ [][NextServe]_vars

----------------------------------------------------------------------------
(* Value extraction: extract_xml_value and its entity decoding, generated  *)
(* by lib.rs                                                               *)

\* number of pieces the content of a value element is put together from
MaxText == 3

\* the patterns array of extract_xml_value
value_start_patterns(tag_name) ==
    << <<"<">> \o tag_name \o <<">">>, <<"<">> \o tag_name \o <<":">>,
       <<"<","t","n","s",":">> \o tag_name \o <<">">>, <<"<","n","s","1",":">> \o tag_name \o <<">">> >>

\* the end_patterns array of extract_xml_value
value_end_patterns(tag_name) ==
    << <<"<","/">> \o tag_name \o <<">">>, <<"<","/">> \o tag_name \o <<":">>,
       <<"<","/","t","n","s",":">> \o tag_name \o <<">">>, <<"<","/","n","s","1",":">> \o tag_name \o <<">">> >>

RECURSIVE ValueUpTo(_, _, _, _)
\* the loop over end_patterns: the first end pattern found after the start
\* tag delimits the content, which is trimmed and decoded (None: no end
\* pattern occurs)
ValueUpTo(xml, content_start, ends, k) ==
    IF k > Len(ends) THEN NoneV
    ELSE IF IsSome(Find(Slice(xml, content_start, Len(xml)), ends[k]))
    THEN Some(decode_xml_content(Trim(Slice(xml, content_start,
             content_start + Unwrap(Find(Slice(xml, content_start, Len(xml)), ends[k]))))))
    ELSE ValueUpTo(xml, content_start, ends, k + 1)

\* the self-closing case that follows the loop over end_patterns
ValueOrEmpty(value, remaining, close_bracket) ==
    IF IsSome(value) THEN value
    ELSE IF EndsWith(Slice(remaining, 0, close_bracket), <<"/">>) THEN Some(<< >>)
    ELSE NoneV

\* the body of  if let Some(start_pos) = xml.find(start_pattern)  (None: the
\* loop goes on with the next start pattern)
ValueFrom(xml, tag_name, start_pos, close_bracket) ==
    IF ~IsSome(close_bracket) THEN NoneV
    ELSE ValueOrEmpty(
             ValueUpTo(xml, start_pos + Unwrap(close_bracket) + 1, value_end_patterns(tag_name), 1),
             Slice(xml, start_pos, Len(xml)), Unwrap(close_bracket))

RECURSIVE ValueOfPattern(_, _, _, _)
\* the loop over patterns
ValueOfPattern(xml, tag_name, starts, k) ==
    IF k > Len(starts) THEN NoneV
    ELSE IF ~IsSome(Find(xml, starts[k])) THEN ValueOfPattern(xml, tag_name, starts, k + 1)
    ELSE IF IsSome(ValueFrom(xml, tag_name, Unwrap(Find(xml, starts[k])),
                       Find(Slice(xml, Unwrap(Find(xml, starts[k])), Len(xml)), <<">">>)))
    THEN ValueFrom(xml, tag_name, Unwrap(Find(xml, starts[k])),
             Find(Slice(xml, Unwrap(Find(xml, starts[k])), Len(xml)), <<">">>))
    ELSE ValueOfPattern(xml, tag_name, starts, k + 1)

extract_xml_value(xml, tag_name) ==
    ValueOfPattern(xml, tag_name, value_start_patterns(tag_name), 1)

\* what the content of a value element is put together from: the five
\* entities, plain characters and the tails of entity names
ContentPieces ==
    { <<"&","l","t",";">>, <<"&","g","t",";">>, <<"&","a","m","p",";">>, <<"&","q","u","o","t",";">>, <<"&","a","p","o","s",";">>,
      <<"a">>, <<"l","t",";">>, <<"q","u","o","t",";">>, <<"&">> }

\* the elements a value is read from: unprefixed, prefixed, with an
\* attribute, and self-closing
ValueElements(content) ==
    { <<"<","r",">","<","v",">">> \o content \o <<"<","/","v",">","<","/","r",">">>,
      <<"<","r",">","<","t","n","s",":","v",">">> \o content \o <<"<","/","t","n","s",":","v",">","<","/","r",">">>,
      <<"<","r",">","<","v",":","x","/",">","<","w",">">> \o content \o <<"<","/","w",">","<","/","r",">">> }

ValueInputs(n) ==
    UNION {ValueElements(Flatten(ps)) : ps \in [1..n -> ContentPieces]}

InitValue ==
    /\ config = NoConfig
    /\ operations = << >>
    /\ reqs = NoReqs
    /\ wsdl_runs = << >>
    /\ phase = "element"
    /\ \E n \in 0..MaxText : arg \in ValueInputs(n)
    /\ ret = << >>

\* a handler reads the value of the element v of the request
ExtractValue ==
    /\ phase = "element"
    /\ ret' = extract_xml_value(arg, <<"v">>)
    /\ phase' = "value"
    /\ UNCHANGED <<config, operations, reqs, wsdl_runs, arg>>

NextValue == ExtractValue

SpecValue == InitValue /\ [][NextValue]_vars

----------------------------------------------------------------------------
(* Struct analysis (src/src/parser/types.rs) and the schema written for the *)
(* descriptor it builds                                                     *)

\* number of fields of an analysed struct
MaxFields == 2

\* a syn::Type::Path whose last segment has angle-bracketed arguments
TypeGeneric(segments, args) == [path |-> TRUE, segments |-> segments, args |-> args]

\* a syn::Attribute: its path, whether its meta is a list, and the tokens of
\* the list as to_string writes them
Attribute(path, list, tokens) == [path |-> path, list |-> list, tokens |-> tokens]

\* a field of a struct, and a syn::DeriveInput: data is "struct", "enum" or
\* "union", shape is "named", "unnamed" or "unit"
Field(ident, attrs, ty) == [ident |-> ident, attrs |-> attrs, ty |-> ty]
DeriveInput(ident, data, shape, fields) ==
    [ident |-> ident, data |-> data, shape |-> shape, fields |-> fields]

FieldInfo(name, xml_name, field_type, optional) ==
    [name |-> name, xml_name |-> xml_name, field_type |-> field_type, optional |-> optional]

\* the text between the first and the last quote of the tokens
RenamedTo(tokens_str, start, end) ==
    IF IsSome(start) /\ IsSome(end) /\ Unwrap(start) < Unwrap(end)
    THEN Some(Slice(tokens_str, Unwrap(start) + 1, Unwrap(end)))
    ELSE NoneV

\* the body of the loop of extract_xml_name_from_attributes for one attribute
RenameOf(attr) ==
    IF attr.path = <<"s","e","r","d","e">> /\ attr.list /\ Contains(attr.tokens, <<"r","e","n","a","m","e">>)
    THEN RenamedTo(attr.tokens, Find(attr.tokens, <<"\"">>), RFind(attr.tokens, <<"\"">>))
    ELSE NoneV

RECURSIVE extract_xml_name_from_attributes(_, _)
extract_xml_name_from_attributes(attrs, default_name) ==
    IF attrs = << >> THEN default_name
    ELSE IF IsSome(RenameOf(Head(attrs))) THEN Unwrap(RenameOf(Head(attrs)))
    ELSE extract_xml_name_from_attributes(Tail(attrs), default_name)

\* the first generic argument of the last path segment, when it is a type
extract_generic_argument(type_path) ==
    IF type_path.segments = << >> THEN NoneV
    ELSE IF "args" \notin DOMAIN type_path THEN NoneV
    ELSE IF type_path.args = << >> THEN NoneV
    ELSE IF type_path.args[1].is_type THEN Some(type_path.args[1].ty)
    ELSE NoneV

\* the match on the type name that ends analyze_field_type
PrimitiveOrCustom(type_name) ==
    CASE type_name \in { <<"S","t","r","i","n","g">>, <<"s","t","r">> } -> FieldTypeString
      [] type_name = <<"i","3","2">> -> FieldTypeI32
      [] type_name = <<"i","6","4">> -> FieldTypeI64
      [] type_name = <<"f","3","2">> -> FieldTypeF32
      [] type_name = <<"f","6","4">> -> FieldTypeF64
      [] type_name = <<"b","o","o","l">> -> FieldTypeBool
      [] OTHER -> FieldTypeCustom(type_name)

\* the ? operator on the analysis of the inner type, then the wrapping
WrapInner(inner, wrapper) ==
    IF ~inner.ok THEN DefErr
    ELSE IF wrapper = "Optional" THEN DefOk(FieldTypeOptional(inner.val))
    ELSE DefOk(FieldTypeVec(inner.val))

RECURSIVE analyze_field_type(_)
analyze_field_type(ty) ==
    IF ~ty.path THEN DefErr
    ELSE IF extract_type_name(ty) = <<"O","p","t","i","o","n">> /\ IsSome(extract_generic_argument(ty))
    THEN WrapInner(analyze_field_type(Unwrap(extract_generic_argument(ty))), "Optional")
    ELSE IF extract_type_name(ty) = <<"V","e","c">> /\ IsSome(extract_generic_argument(ty))
    THEN WrapInner(analyze_field_type(Unwrap(extract_generic_argument(ty))), "Vec")
    ELSE DefOk(PrimitiveOrCustom(extract_type_name(ty)))

is_optional_type(ty) == ty.path /\ extract_type_name(ty) = <<"O","p","t","i","o","n">>

RECURSIVE AnalyzeFields(_, _)
\* the loop of analyze_struct_definition over the fields, the ? operator
\* returning the first error
AnalyzeFields(fields, field_infos) ==
    IF fields = << >> THEN DefOk(field_infos)
    ELSE IF ~analyze_field_type(Head(fields).ty).ok THEN DefErr
    ELSE AnalyzeFields(Tail(fields),
             Append(field_infos,
                 FieldInfo(Head(fields).ident,
                           extract_xml_name_from_attributes(Head(fields).attrs, Head(fields).ident),
                           analyze_field_type(Head(fields).ty).val,
                           is_optional_type(Head(fields).ty))))

\* the TypeInfo built from the analysed fields
StructInfo(struct_name, field_infos) ==
    IF ~field_infos.ok THEN DefErr
    ELSE DefOk([name |-> struct_name, fields |-> field_infos.val, namespace |-> NoneV])

analyze_struct_definition(item) ==
    IF item.data # "struct" THEN DefErr
    ELSE IF item.shape # "named" THEN DefErr
    ELSE StructInfo(item.ident, AnalyzeFields(item.fields, << >>))

\* #[serde(rename = "..")] and other attributes of a field
SerdeRename(xml_name) == Attribute(<<"s","e","r","d","e">>, TRUE, <<"r","e","n","a","m","e"," ","="," ",
                                                      "\"">> \o xml_name \o <<"\"">>)
SerdeDefault == Attribute(<<"s","e","r","d","e">>, TRUE, <<"d","e","f","a","u","l","t">>)
DocComment == Attribute(<<"d","o","c">>, FALSE, << >>)

TString == TypePath(<<<<"S","t","r","i","n","g">>>>)
TInt == TypePath(<<<<"i","3","2">>>>)

\* the fields the analysed structs are declared with
FieldDecls ==
    { Field(<<"a">>, <<SerdeRename(<<"O","p","e","r","a","n","d","1">>)>>, TInt),
      Field(<<"f","i","r","s","t">>, <<DocComment, SerdeRename(<<"F","i","r","s","t","T","e","x","t">>)>>, TString),
      Field(<<"s","e","p","a","r","a","t","o","r">>, <<SerdeRename(<<"S","e","p","a","r","a","t","o","r">>)>>,
            TypeGeneric(<<<<"O","p","t","i","o","n">>>>, <<GenericType(TString)>>)),
      Field(<<"u","p","p","e","r","c","a","s","e">>, <<SerdeDefault>>, TypePath(<<<<"b","o","o","l">>>>)),
      Field(<<"t","o","t","a","l">>, << >>, TypePath(<<<<"i","6","4">>>>)),
      Field(<<"r","a","t","i","o">>, << >>, TypePath(<<<<"f","3","2">>>>)),
      Field(<<"s","c","a","l","e">>, << >>, TypePath(<<<<"f","6","4">>>>)),
      Field(<<"l","a","b","e","l">>, << >>, TypeReference(TypePath(<<<<"s","t","r">>>>))),
      Field(<<"i","n","n","e","r">>, << >>, TAddRequest),
      Field(<<"i","t","e","m","s">>, << >>, TypeGeneric(<<<<"V","e","c">>>>, <<GenericType(TInt)>>)),
      Field(<<"e","x","t","r","a">>, << >>,
            TypeGeneric(<<<<"s","t","d">>, <<"o","p","t","i","o","n">>, <<"O","p","t","i","o","n">>>>, <<GenericType(TAddRequest)>>)),
      Field(<<"m","a","y","b","e">>, << >>,
            TypeGeneric(<<<<"O","p","t","i","o","n">>>>,
                <<GenericType(TypeGeneric(<<<<"O","p","t","i","o","n">>>>, <<GenericType(TInt)>>))>>)),
      Field(<<"c","h","o","i","c","e">>, << >>, TypePath(<<<<"s","e","t","t","i","n","g","s">>, <<"O","p","t","i","o","n">>>>)),
      Field(<<"p","a","i","r">>, << >>, TypeTuple) }

StructInputs(n) ==
    {DeriveInput(<<"A","d","d","R","e","q","u","e","s","t">>, "struct", "named", fs) : fs \in [1..n -> FieldDecls]}
        \cup { DeriveInput(<<"S","e","r","v","i","c","e","E","r","r","o","r">>, "struct", "unnamed", << >>),
               DeriveInput(<<"M","o","d","e">>, "enum", "unit", << >>) }

InitSchema ==
    /\ config = NoConfig
    /\ operations = << >>
    /\ reqs = NoReqs
    /\ wsdl_runs = << >>
    /\ phase = "struct"
    /\ \E n \in 0..MaxFields : arg \in StructInputs(n)
    /\ ret = << >>

\* the struct is analysed
AnalyzeStruct ==
    /\ phase = "struct"
    /\ ret' = analyze_struct_definition(arg)
    /\ phase' = "descriptor"
    /\ UNCHANGED <<config, operations, reqs, wsdl_runs, arg>>

\* the schema of a catalog that holds the descriptor is written
GenerateSchema ==
    /\ phase = "descriptor"
    /\ ret.ok
    /\ wsdl_runs' = <<generate_schema_types(Insert(EmptyMap, ret.val.name, ret.val),
                                            <<ret.val.name>>)>>
    /\ phase' = "schema"
    /\ UNCHANGED <<config, operations, reqs, arg, ret>>

NextSchema == AnalyzeStruct \/ GenerateSchema

SpecSchema == InitSchema /\ [][NextSchema]_vars

----------------------------------------------------------------------------
(* Properties of the dispatcher, checked under Spec *)

\* the library or the handler was called and returned x
WasCalled(x) == x # NoCall

\* the operation table has an operation with exactly this name
KnownOperation(name) == \E i \in 1..Len(operations) : operations[i].name = name

\* every stage of the request succeeded: parsing, lookup, deserialization,
\* the handler and serialization
StagesSucceeded(rec) ==
    /\ rec.parsed.kind = "Ok"
    /\ KnownOperation(rec.parsed.operation)
    /\ rec.de.ok /\ rec.res.ok /\ rec.ser.ok

\* body is the fault skeleton around one fault string
IsFaultEnvelope(body) ==
    /\ Len(body) >= Len(FaultTemplate1) + Len(FaultTemplate2)
    /\ StartsWith(body, FaultTemplate1)
    /\ EndsWith(body, FaultTemplate2)

\* body is the response skeleton
IsResponseEnvelope(body) ==
    /\ StartsWith(body, ResponseTemplate1)
    /\ EndsWith(body, ResponseTemplate5)
    /\ ~Contains(body, <<"<","s","o","a","p",":","F","a","u","l","t",">">>)

\* the text between the first <faultstring> and the last </faultstring>
FaultString(body) ==
    Slice(body, Unwrap(Find(body, <<"<","f","a","u","l","t","s","t","r","i","n","g",">">>)) + 13,
          Unwrap(RFind(body, <<"<","/","f","a","u","l","t","s","t","r","i","n","g",">">>)))

\* the text between the first <faultcode> and the first </faultcode>
FaultCode(body) ==
    Slice(body, Unwrap(Find(body, <<"<","f","a","u","l","t","c","o","d","e",">">>)) + 11,
          Unwrap(Find(body, <<"<","/","f","a","u","l","t","c","o","d","e",">">>)))

\* C1: every request is answered exactly once: status 200 with a response
\* envelope when parsing, lookup, deserialization, the handler and
\* serialization all succeeded, and otherwise status 500 with a fault
\* envelope; no request panics, and no failure is answered with status 200
\* or with an empty body.
C1_OneResponsePerRequest ==
    \A r \in Requests :
        /\ reqs[r].pc \in {"idle", "awaiting", "done"}
        /\ reqs[r].sent = (IF reqs[r].pc = "done" THEN 1 ELSE 0)
        /\ reqs[r].pc = "done" =>
              /\ reqs[r].body # << >>
              /\ IF StagesSucceeded(reqs[r])
                 THEN reqs[r].status = 200 /\ IsResponseEnvelope(reqs[r].body)
                 ELSE reqs[r].status = 500 /\ IsFaultEnvelope(reqs[r].body)

\* a request whose last stage, serialization, failed has been answered
C1_Witness ==
    \E r \in Requests :
        /\ reqs[r].pc = "done"
        /\ reqs[r].stages = <<"parse", "lookup", "deserialize", "invoke", "serialize">>
        /\ reqs[r].status = 500

\* C2: when the parsed operation name equals (case-sensitively) the name of
\* no operation of the table, no handler is invoked and the request is
\* answered with status 500 and the error "Unknown operation: {name}"; when
\* it equals one, the operation selected has that name and only its handler
\* is invoked.
C2_UnknownOperation ==
    \A r \in Requests :
        (reqs[r].pc \in {"awaiting", "done"}
            /\ reqs[r].parsed.kind = "Ok") =>
        IF KnownOperation(reqs[r].parsed.operation)
        THEN /\ reqs[r].matched \in 1..Len(operations)
             /\ operations[reqs[r].matched].name
                    = reqs[r].parsed.operation
             /\ reqs[r].invoked \in
                    {<< >>, <<operations[reqs[r].matched].function_name>>}
        ELSE /\ reqs[r].pc = "done"
             /\ reqs[r].invoked = << >>
             /\ reqs[r].status = 500
             /\ reqs[r].result.err
                    = MsgUnknownOperation \o reqs[r].parsed.operation

\* the operation element add differs from the operation Add only in case
\* and was answered as unknown
C2_Witness ==
    \E r \in Requests :
        /\ reqs[r].pc = "done"
        /\ reqs[r].result.err = <<"U","n","k","n","o","w","n"," ","o","p","e","r","a","t",
                                  "i","o","n",":"," ","a","d","d">>
        /\ KnownOperation(<<"A","d","d">>)

AllStages == <<"parse", "lookup", "deserialize", "invoke", "serialize", "envelope">>

\* C3: the stages of a matched operation run in the order deserialize,
\* invoke, serialize, envelope and stop at the first failure: after a failed
\* deserialization the error starts with "Failed to parse request: " and no
\* handler was invoked; after a handler error the error is "Operation
\* failed: {cause}" and the serializer was not called; after a failed
\* serialization the error is "Failed to serialize response: {cause}".
C3_StageOrder ==
    \A r \in Requests :
        /\ reqs[r].stages = SubSeq(AllStages, 1, Len(reqs[r].stages))
        /\ (WasCalled(reqs[r].de) /\ ~reqs[r].de.ok) =>
              /\ reqs[r].pc = "done"
              /\ StartsWith(reqs[r].result.err, MsgParseRequest)
              /\ EndsWith(reqs[r].result.err,
                          reqs[r].de.err \o MsgForXml
                              \o reqs[r].parsed.body_xml)
              /\ reqs[r].invoked = << >>
              /\ ~WasCalled(reqs[r].res)
        /\ (WasCalled(reqs[r].res) /\ ~reqs[r].res.ok) =>
              /\ reqs[r].result.err = MsgOperationFailed \o reqs[r].res.err
              /\ ~WasCalled(reqs[r].ser)
              /\ reqs[r].stages = SubSeq(AllStages, 1, 4)
        /\ (WasCalled(reqs[r].ser) /\ ~reqs[r].ser.ok) =>
              /\ reqs[r].result.err
                    = MsgSerializeResponse \o MsgSerialization \o reqs[r].ser.err
              /\ reqs[r].stages = SubSeq(AllStages, 1, 5)
        /\ reqs[r].invoked # << >> => (WasCalled(reqs[r].de) /\ reqs[r].de.ok)
        /\ WasCalled(reqs[r].ser) => (WasCalled(reqs[r].res) /\ reqs[r].res.ok)

\* a request whose deserialization failed has been answered
C3_Witness ==
    \E r \in Requests :
        /\ reqs[r].pc = "done"
        /\ WasCalled(reqs[r].de) /\ ~reqs[r].de.ok
        /\ reqs[r].stages = <<"parse", "lookup", "deserialize">>

\* C4 as claimed: after a handler error the fault string is the handler's
\* error message verbatim, with nothing before or after it.
C4_FaultStringVerbatim ==
    \A r \in Requests :
        (reqs[r].pc = "done" /\ WasCalled(reqs[r].res) /\ ~reqs[r].res.ok) =>
            FaultString(reqs[r].body) = reqs[r].res.err

\* C4 as amended: after a handler error the text between <faultstring> and
\* </faultstring> is "Operation failed: " followed by the handler's error
\* message, character for character.
C4_FaultStringPrefixed ==
    \A r \in Requests :
        (reqs[r].pc = "done" /\ WasCalled(reqs[r].res) /\ ~reqs[r].res.ok) =>
            /\ reqs[r].status = 500
            /\ FaultString(reqs[r].body) = MsgOperationFailed \o reqs[r].res.err

\* the handler's error "Cannot add two zeros" has been answered
C4_Witness ==
    \E r \in Requests :
        /\ reqs[r].pc = "done"
        /\ reqs[r].res = RErr(<<"C","a","n","n","o","t"," ","a","d","d"," ","t","w","o"," ",
                                "z","e","r","o","s">>)

\* the text between the first <soap:Body> and the last </soap:Body>, trimmed
BodyElement(body) ==
    Trim(Slice(body, Unwrap(Find(body, <<"<","s","o","a","p",":","B","o","d","y",">">>)) + 11,
               Unwrap(RFind(body, <<"<","/","s","o","a","p",":","B","o","d","y",">">>))))

\* inner is the element <tns:{op}Response> with content (up to surrounding
\* white space) fragment
IsResponseElement(inner, op, fragment) ==
    /\ Len(inner) >= 2 * Len(op) + 29
    /\ StartsWith(inner, <<"<","t","n","s",":">> \o op \o <<"R","e","s","p","o","n","s","e",">">>)
    /\ EndsWith(inner, <<"<","/","t","n","s",":">> \o op \o <<"R","e","s","p","o","n","s","e",">">>)
    /\ Trim(Slice(inner, Len(op) + 14, Len(inner) - Len(op) - 15)) = fragment

\* C6: the envelope of a successful call declares the soap prefix against
\* the SOAP 1.1 envelope URI and xmlns:tns as the configured namespace, and
\* its Body holds exactly the element tns:{Op}Response, Op the name of the
\* matched operation, whose content is the serialized result.
C6_ResponseEnvelope ==
    \A r \in Requests :
        (reqs[r].pc = "done" /\ reqs[r].status = 200) =>
            /\ StartsWith(reqs[r].body, <<"<","?","x","m","l"," ","v","e","r","s","i","o",
                                          "n","=","\"","1",".","0","\""," ","e","n","c","o",
                                          "d","i","n","g","=","\"","U","T","F","-","8","\"",
                                          "?",">","\n","<","s","o","a","p",":","E","n","v",
                                          "e","l","o","p","e"," ">>)
            /\ Contains(reqs[r].body,
                        <<" ","x","m","l","n","s",":","s","o","a","p","=","\"","h","t","t",
                          "p",":","/","/","s","c","h","e","m","a","s",".","x","m","l","s",
                          "o","a","p",".","o","r","g","/","s","o","a","p","/","e","n","v",
                          "e","l","o","p","e","/","\"">>)
            /\ Contains(reqs[r].body,
                        <<" ","x","m","l","n","s",":","t","n","s","=","\"">> \o config.namespace \o <<"\"",">">>)
            /\ EndsWith(reqs[r].body, <<"<","/","s","o","a","p",":","B","o","d","y",">",
                                        "\n","<","/","s","o","a","p",":","E","n","v","e",
                                        "l","o","p","e",">">>)
            /\ IsResponseElement(BodyElement(reqs[r].body),
                                 operations[reqs[r].matched].name, reqs[r].ser.val)

\* a call of Add that returned 5 has been answered with status 200
C6_Witness ==
    \E r \in Requests :
        /\ reqs[r].pc = "done" /\ reqs[r].status = 200
        /\ operations[reqs[r].matched].name = <<"A","d","d">>
        /\ reqs[r].ser.val = <<"<","A","d","d","R","e","s","p","o","n","s","e",">","<","R",
                               "e","s","u","l","t",">","5","<","/","R","e","s","u","l","t",
                               ">","<","/","A","d","d","R","e","s","p","o","n","s","e",">">>

\* reparsed, the result of parsing the response envelope of rec, is a parsed
\* request with the name of the operation and the serialized response
RecoversOperation(rec, reparsed) ==
    /\ reparsed.kind = "Ok"
    /\ reparsed.operation = operations[rec.matched].name
    /\ reparsed.body_xml = rec.ser.val

\* reparsed is a parsed request with the name of the response element and,
\* as body fragment, that element around the serialized response
RecoversResponseElement(rec, reparsed) ==
    /\ reparsed.kind = "Ok"
    /\ reparsed.operation = operations[rec.matched].name \o <<"R","e","s","p","o","n","s","e">>
    /\ IsResponseElement(reparsed.body_xml, operations[rec.matched].name, rec.ser.val)

\* C7 as claimed: parsing the response envelope of operation Op recovers the
\* operation name Op and, as body fragment, the serialized response.
C7_RoundTripRecoversOperation ==
    \A r \in Requests :
        (reqs[r].pc = "done" /\ reqs[r].status = 200) =>
            RecoversOperation(reqs[r], parse_soap_envelope(reqs[r].body))

\* C7 as amended: parsing the response envelope of operation Op succeeds
\* with the operation name {Op}Response and, as body fragment, the element
\* tns:{Op}Response whose content is the serialized response.
C7_RoundTripRecoversResponseElement ==
    \A r \in Requests :
        (reqs[r].pc = "done" /\ reqs[r].status = 200) =>
            RecoversResponseElement(reqs[r], parse_soap_envelope(reqs[r].body))

\* the response envelope of MultiplyNumbers has been built
C7_Witness ==
    \E r \in Requests :
        /\ reqs[r].pc = "done" /\ reqs[r].status = 200
        /\ operations[reqs[r].matched].name = <<"M","u","l","t","i","p","l","y","N","u","m",
                                                "b","e","r","s">>

\* every < and > of text is written as an entity: no raw < or >, and every &
\* opens one of the five entities
IsEntityEncoded(text) ==
    \A i \in 1..Len(text) :
        /\ text[i] \notin {"<", ">"}
        /\ text[i] = "&" =>
              \E e \in {<<"&","l","t",";">>, <<"&","g","t",";">>, <<"&","a","m","p",";">>, <<"&","q","u","o","t",";">>, <<"&","a","p","o","s",";">>} :
                  OccursAt(text, e, i - 1)

\* C8: the fault built for the error message m has the fault code Server and
\* a fault string in which <, > and & are entity-encoded and whose
\* entity-decoded text is m.
C8_FaultStringEncoded ==
    \A r \in Requests :
        (reqs[r].pc = "done" /\ reqs[r].status = 500) =>
            /\ FaultCode(reqs[r].body) = <<"S","e","r","v","e","r">>
            /\ IsEntityEncoded(FaultString(reqs[r].body))
            /\ decode_xml_content(FaultString(reqs[r].body)) = reqs[r].result.err

----------------------------------------------------------------------------
(* Properties of the envelope parser, checked under SpecParse *)

BodyTagDialects == 1..Len(body_start_patterns)

\* the offsets at which p occurs in s
Occurrences(s, p) == {i \in 0..(Len(s) - Len(p)) : OccursAt(s, p, i)}

\* xml has exactly one Body start tag and exactly one Body end tag, both of
\* dialect k, and nothing but white space between them
IsEmptyBody(xml, k) ==
    /\ \A j \in BodyTagDialects \ {k} :
          /\ Occurrences(xml, body_start_patterns[j]) = {}
          /\ Occurrences(xml, body_end_patterns[j]) = {}
    /\ Cardinality(Occurrences(xml, body_start_patterns[k])) = 1
    /\ Cardinality(Occurrences(xml, body_end_patterns[k])) = 1
    /\ \E i \in Occurrences(xml, body_start_patterns[k]),
          j \in Occurrences(xml, body_end_patterns[k]) :
          /\ i + Len(body_start_patterns[k]) <= j
          /\ \A n \in (i + Len(body_start_patterns[k]) + 1)..j : IsWs(xml[n])

\* the first Body start tag the reader yields is followed at once by a
\* Body end tag (the reader trims white space away), and the reader does
\* not fail before it
IsEmptyBodyEvents(events) ==
    \E i \in 1..(Len(events) - 1) :
        /\ events[i].type = "Start" /\ IsBodyName(events[i].name)
        /\ events[i + 1].type = "End" /\ IsBodyName(events[i + 1].name)
        /\ \A k \in 1..(i - 1) :
              /\ events[k].type # "Err"
              /\ ~(events[k].type = "Start" /\ IsBodyName(events[k].name))

\* C5: parse_soap_envelope and parse_soap_request return a parsed request
\* or an error for every input and never index a slice out of range; an
\* envelope whose Body is empty or holds only white space is an error, and
\* no parsed request of parse_soap_request has an empty operation name.
C5_ParseTotal ==
    /\ phase = "parsed" =>
          /\ ret.kind \in {"Ok", "Err"}
          /\ (\E k \in BodyTagDialects : IsEmptyBody(arg, k)) =>
                /\ ret.kind = "Err"
                /\ ret.error \in {ErrBodyStructure, ErrNoElement}
    /\ phase = "read" =>
          /\ ret.kind \in {"Ok", "Err"}
          /\ ret.kind = "Ok" => ret.operation # << >>
          /\ IsEmptyBodyEvents(arg) => ret = SoapParseError(ErrNoOperation)

\* a Body holding one space has been rejected
C5_Witness ==
    /\ phase = "parsed"
    /\ arg = <<"<","s","o","a","p",":","B","o","d","y",">"," ","<","/","s","o","a","p",":",
               "B","o","d","y",">">>
    /\ ret = ParseErr(ErrNoElement)

----------------------------------------------------------------------------
(* Properties of the operation name derivation, checked under SpecName *)

\* the positions of name that hold a character other than '_'
Letters(name) == {i \in 1..Len(name) : name[i] # "_"}

\* the j-th smallest element of the set of numbers S
Nth(S, j) == CHOOSE i \in S : Cardinality({k \in S : k <= i}) = j

\* the capital of a letter of the names used here, any other character itself
Capital(c) ==
    CASE c = "a" -> "A" [] c = "d" -> "D" [] c = "g" -> "G"
      [] c = "m" -> "M" [] c = "n" -> "N" [] OTHER -> c

\* character i of name as it appears in the operation name: capitalised when
\* it starts a segment, unchanged otherwise
Derived(name, i) ==
    IF i = 1 \/ name[i - 1] = "_" THEN Capital(name[i]) ELSE name[i]

\* C9: the operation name is the function name split on '_', with the first
\* character of each non-empty segment upper-cased, the other characters
\* unchanged, empty segments dropped and the segments joined in order; add
\* gives Add, multiply_numbers MultiplyNumbers, get_HTTPStatus GetHTTPStatus.
C9_OperationName ==
    phase = "named" =>
        /\ Len(ret) = Cardinality(Letters(arg))
        /\ \A j \in 1..Len(ret) : ret[j] = Derived(arg, Nth(Letters(arg), j))
        /\ arg = <<"a","d","d">> => ret = <<"A","d","d">>
        /\ arg = <<"m","u","l","t","i","p","l","y","_","n","u","m","b","e","r","s">> => ret = <<"M","u","l","t","i","p","l","y","N","u",
                                                 "m","b","e","r","s">>
        /\ arg = <<"g","e","t","_","H","T","T","P","S","t","a","t","u","s">> => ret = <<"G","e","t","H","T","T","P","S","t","a","t",
                                               "u","s">>

\* the name of get_HTTPStatus has been derived
C9_Witness ==
    /\ phase = "named"
    /\ arg = <<"g","e","t","_","H","T","T","P","S","t","a","t","u","s">>
    /\ ret = <<"G","e","t","H","T","T","P","S","t","a","t","u","s">>

----------------------------------------------------------------------------
(* Properties of the WSDL generation, checked under SpecWsdl *)

\* C10: two generations of the WSDL for the same config, the same operation
\* list and catalogs holding the same entries give the same text, character
\* for character, whatever order the map iterates its entries in.
C10_WsdlDeterministic ==
    \A i, j \in 1..Len(wsdl_runs) : wsdl_runs[i] = wsdl_runs[j]

\* the WSDL text generated last
LastWsdl == wsdl_runs[Len(wsdl_runs)]

\* the offsets of s at which a tag opens
TagOffsets(s) == {i \in 0..(Len(s) - 1) : s[i + 1] = "<"}

\* the offsets among tags at which the tag start p occurs in s
TagsAt(s, tags, p) == {i \in tags : OccursAt(s, p, i)}

\* entry is the portType entry of the operation name: it opens with the
\* operation's name, is closed once and refers to the two messages of name
IsPortOperation(entry, name) ==
    /\ StartsWith(entry, <<"<","o","p","e","r","a","t","i","o","n"," ","n","a","m","e","=",
                           "\"">> \o name \o <<"\"",">">>)
    /\ Cardinality(Occurrences(entry, <<"<","/","o","p","e","r","a","t","i","o","n",">">>)) = 1
    /\ Contains(entry, <<"<","i","n","p","u","t"," ","m","e","s","s","a","g","e","=","\"",
                         "t","n","s",":">> \o name \o <<"R","e","q","u","e","s","t","\"","/",
                                                             ">">>)
    /\ Contains(entry, <<"<","o","u","t","p","u","t"," ","m","e","s","s","a","g","e","=",
                         "\"","t","n","s",":">> \o name \o <<"R","e","s","p","o","n","s","e","\"",
                                                              "/",">">>)

\* the text of wsdl up to offset to holds one entry per operation of ops, in
\* the order of ops; opens are the offsets at which an operation entry starts
HasPortOperations(wsdl, opens, to, ops) ==
    /\ Cardinality(opens) = Len(ops)
    /\ \A j \in 1..Len(ops) :
          IsPortOperation(
              Slice(wsdl, Nth(opens, j),
                    IF j < Len(ops) THEN Nth(opens, j + 1) ELSE to),
              ops[j].name)

\* the portType of wsdl, which runs from offset from to offset to, holds one
\* entry per operation of ops, in the order of ops
PortTypeHasOperations(wsdl, tags, from, to, ops) ==
    HasPortOperations(
        wsdl,
        {i \in TagsAt(wsdl, tags, <<"<","o","p","e","r","a","t","i","o","n"," ","n","a","m",
                                    "e","=","\"">>) : from < i /\ i < to},
        to, ops)

\* wsdl, whose tags open at the offsets tags, has one service element, named
\* name, and one portType, and that portType holds the operations ops
HasOneServiceAndPortType(wsdl, tags, name, ops) ==
    /\ Cardinality(TagsAt(wsdl, tags, <<"<","s","e","r","v","i","c","e"," ">>)) = 1
    /\ Cardinality(TagsAt(wsdl, tags, <<"<","s","e","r","v","i","c","e"," ","n","a","m","e",
                                        "=","\"">> \o name \o <<"\"",">">>)) = 1
    /\ Cardinality(TagsAt(wsdl, tags, <<"<","/","s","e","r","v","i","c","e",">">>)) = 1
    /\ Cardinality(TagsAt(wsdl, tags, <<"<","p","o","r","t","T","y","p","e"," ">>)) = 1
    /\ Cardinality(TagsAt(wsdl, tags, <<"<","/","p","o","r","t","T","y","p","e",">">>)) = 1
    /\ PortTypeHasOperations(
           wsdl, tags,
           Min(TagsAt(wsdl, tags, <<"<","p","o","r","t","T","y","p","e"," ">>)),
           Min(TagsAt(wsdl, tags, <<"<","/","p","o","r","t","T","y","p","e",">">>)),
           ops)

\* C11: a generated WSDL has exactly one service element, named after the
\* configured service name, and exactly one portType, which holds exactly
\* one operation entry per operation of the operation list, in declaration
\* order, each referring to the messages {Op}Request and {Op}Response.
C11_OneServiceOnePortType ==
    wsdl_runs # << >> =>
        HasOneServiceAndPortType(
            LastWsdl, TagOffsets(LastWsdl), config.service_name, operations)

\* a WSDL has been generated for the module with four operations
C11_Witness ==
    /\ wsdl_runs # << >>
    /\ Len(operations) = 4
    /\ operations[2].name = <<"M","u","l","t","i","p","l","y","N","u","m","b","e","r","s">>

\* validity of the values of the four attributes, as C12 states it
IsValidNamespace(v) ==
    /\ v # << >>
    /\ \/ Slice(v, 0, Min({7, Len(v)})) = <<"h","t","t","p",":","/","/">>
       \/ Slice(v, 0, Min({8, Len(v)})) = <<"h","t","t","p","s",":","/","/">>
IsIdentifierStart(c) == is_ascii_alphabetic(c) \/ c = "_"
IsIdentifierChar(c) == is_ascii_alphanumeric(c) \/ c = "_"
IsValidIdentifier(v) ==
    /\ v # << >>
    /\ IsIdentifierStart(v[1])
    /\ \A i \in 1..Len(v) : IsIdentifierChar(v[i])
IsValidBindPath(v) == v # << >> /\ v[1] = "/" /\ v # <<"/">>

\* attr is one of the four attributes, written as a string, with a valid value
IsValidAttribute(attr) ==
    /\ attr.literal
    /\ \/ attr.name = <<"n","a","m","e","s","p","a","c","e">> /\ IsValidNamespace(attr.value)
       \/ attr.name = <<"s","e","r","v","i","c","e","_","n","a","m","e">> /\ IsValidIdentifier(attr.value)
       \/ attr.name = <<"p","o","r","t","_","n","a","m","e">> /\ IsValidIdentifier(attr.value)
       \/ attr.name = <<"b","i","n","d","_","p","a","t","h">> /\ IsValidBindPath(attr.value)

\* the attribute name is written in attrs
IsPresent(attrs, name) == \E i \in 1..Len(attrs) : attrs[i].name = name

AllPresent(attrs) ==
    /\ IsPresent(attrs, <<"n","a","m","e","s","p","a","c","e">>)
    /\ IsPresent(attrs, <<"s","e","r","v","i","c","e","_","n","a","m","e">>)
    /\ IsPresent(attrs, <<"p","o","r","t","_","n","a","m","e">>)
    /\ IsPresent(attrs, <<"b","i","n","d","_","p","a","t","h">>)

\* cfg holds, for each of the four names, a value written for it in attrs
IsConfigOf(cfg, attrs) ==
    /\ DOMAIN cfg = {"namespace", "service_name", "port_name", "bind_path"}
    /\ \E i \in 1..Len(attrs) :
          attrs[i].name = <<"n","a","m","e","s","p","a","c","e">> /\ attrs[i].value = cfg.namespace
    /\ \E i \in 1..Len(attrs) :
          attrs[i].name = <<"s","e","r","v","i","c","e","_","n","a","m","e">> /\ attrs[i].value = cfg.service_name
    /\ \E i \in 1..Len(attrs) :
          attrs[i].name = <<"p","o","r","t","_","n","a","m","e">> /\ attrs[i].value = cfg.port_name
    /\ \E i \in 1..Len(attrs) :
          attrs[i].name = <<"b","i","n","d","_","p","a","t","h">> /\ attrs[i].value = cfg.bind_path

\* C12: parse_service_attributes returns a ServiceConfig only if the four
\* attributes namespace, service_name, port_name and bind_path are all
\* present and valid (namespace non-empty and starting with http:// or
\* https://; service_name and port_name non-empty, starting with an ASCII
\* letter or underscore and made of ASCII alphanumerics and underscores;
\* bind_path starting with '/' and not "/"), and the config holds their
\* values; a missing, unknown or invalid attribute gives an error and no
\* config.
C12_ConfigOnlyIfValid ==
    phase = "config" =>
        /\ ret.ok =>
              /\ AllPresent(arg)
              /\ \A i \in 1..Len(arg) : IsValidAttribute(arg[i])
              /\ IsConfigOf(ret.val, arg)
        /\ (~AllPresent(arg) \/ \E i \in 1..Len(arg) : ~IsValidAttribute(arg[i])) =>
              /\ ~ret.ok
              /\ ret.val = << >>
              /\ ret.error # << >>

\* a config has been returned for a list of four attributes
C12_Witness ==
    /\ phase = "config"
    /\ ret.ok
    /\ Len(arg) = 4
    /\ ret.val.service_name = <<"_","a","1">>

\* func has exactly one parameter, and it is no self receiver
HasOneRequest(func) == Len(func.inputs) = 1 /\ ~func.inputs[1].receiver

\* func returns Result with exactly two type arguments
HasTwoArmedResult(func) ==
    /\ func.output.present
    /\ func.output.last_ident = Some(<<"R","e","s","u","l","t">>)
    /\ Len(func.output.args) = 2
    /\ \A k \in 1..2 : func.output.args[k].is_type

IsPublicAsync(func) == func.public /\ func.asyncness

\* operation is the operation of the function func
IsOperationOf(operation, func) ==
    /\ IsPublicAsync(func)
    /\ HasOneRequest(func)
    /\ HasTwoArmedResult(func)
    /\ operation.function_name = func.ident
    /\ operation.request_type = func.inputs[1].ty
    /\ operation.response_type = func.output.args[1].ty

\* the positions in items of the public async functions
Handlers(items) == {i \in 1..Len(items) : IsPublicAsync(items[i])}

\* table holds the operations of the public async functions of items, in
\* their order
IsTableOf(table, items, handlers) ==
    /\ Len(table) = Cardinality(handlers)
    /\ \A k \in 1..Len(table) : IsOperationOf(table[k], items[Nth(handlers, k)])

\* C13: every operation of the extracted table has exactly one request
\* parameter type and a response type taken from a two-argument Result
\* return type; a public async function with no or more than one parameter,
\* a self receiver, no return type or a return type that is not Result with
\* exactly two type arguments makes extract_soap_operations fail, and no
\* table is produced.
C13_OperationSignatures ==
    phase = "operations" =>
        /\ ret.ok => IsTableOf(ret.val, arg, Handlers(arg))
        /\ (\E i \in Handlers(arg) :
                ~HasOneRequest(arg[i]) \/ ~HasTwoArmedResult(arg[i])) =>
              ~ret.ok /\ ret.val = << >>

\* a table of two operations has been extracted
C13_Witness ==
    /\ phase = "operations"
    /\ ret.ok
    /\ Len(ret.val) = 2
    /\ ret.val[2].response_type = TMultiplyResponse

\* the catalog types holds an entry for the request type and the response
\* type of every operation of ops
HoldsOperationTypes(types, ops) ==
    \A k \in 1..Len(ops) :
        /\ ops[k].request_type.path
        /\ wsdl_extract_type_name(ops[k].request_type) \in DOMAIN types
        /\ ops[k].response_type.path
        /\ wsdl_extract_type_name(ops[k].response_type) \in DOMAIN types

\* C14: whenever the WSDL has been generated, the analysis of the types of
\* the operations has succeeded and the type catalog holds an entry for the
\* request type and the response type of every operation; a failed analysis
\* stops the construction, so that no WSDL is generated.
C14_CatalogComplete ==
    wsdl_runs # << >> =>
        /\ collect_types_from_operations(operations).ok
        /\ HoldsOperationTypes(
               CollectedTypes(collect_types_from_operations(operations)), operations)

\* the record of a request that is received alone with the body xml and
\* whose deserializer returns de
ReceivedAlone(ops, xml, de) ==
    Received(IdleReq, ops, xml, de, handle_soap_request_begin(ops, xml, de))

\* the record of a request that is processed alone: rec is its record once
\* received, res and ser what its handler and the serializer return
ProcessedAlone(rec, ops, ns, res, ser) ==
    IF rec.pc = "awaiting" THEN Completed(rec, ops[rec.matched], ns, res, ser) ELSE rec

\* rec ended as the record alone did
SameOutcome(rec, alone) ==
    /\ rec.pc = alone.pc
    /\ rec.status = alone.status
    /\ rec.body = alone.body
    /\ rec.sent = alone.sent

\* C15: requests are handled independently: in every interleaving of the
\* requests, suspended only while their handlers run, each request ends with
\* the status and the response body it gets when it is processed alone, and
\* the WSDL served on GET is the one document generated at definition time,
\* before, during and after the requests.
C15_RequestsIndependent ==
    /\ \A r \in Requests :
          reqs[r].pc \in {"done", "panicked"} =>
              SameOutcome(
                  reqs[r],
                  ProcessedAlone(ReceivedAlone(operations, reqs[r].xml, reqs[r].de),
                                 operations, config.namespace, reqs[r].res, reqs[r].ser))
    /\ Len(wsdl_runs) = 1
    /\ ret # << >> => ret.status = 200 /\ ret.body = wsdl_runs[1]

\* two requests were suspended at the same time in different handlers, both
\* have been answered and the WSDL has been served
C15_Witness ==
    /\ reqs[1].pc = "done" /\ reqs[2].pc = "done"
    /\ Len(reqs[1].stages) = 6 /\ Len(reqs[2].stages) = 6
    /\ reqs[1].matched = 1 /\ reqs[2].matched = 2
    /\ ret # << >>

\* the start tags the SeekBody step accepts, in their order
AcceptedStartTags == <<<<"<","s","o","a","p",":","B","o","d","y",">">>, <<"<","S","O","A","P","-","E","N","V",":","B","o",
                                          "d","y",">">>, <<"<","B","o","d","y",">">>>>

\* the accepted start tags that occur in xml
StartTagsIn(xml) == {k \in 1..3 : Occurrences(xml, AcceptedStartTags[k]) # {}}

\* body is what stands, up to white space around it, between offset from of
\* xml and some later offset
ContinuesFrom(xml, body, from) ==
    \E to \in from..Len(xml) : body = Trim(Slice(xml, from, to))

\* the offset of xml just after the first occurrence of the tag
EndOfTag(xml, tag) == Min(Occurrences(xml, tag)) + Len(tag)

\* C16: SeekBody accepts the start tags <soap:Body>, <SOAP-ENV:Body> and
\* <Body>; the first of them, in this order, that occurs in the envelope is
\* the one taken, at its first occurrence, and the body parsed is what
\* follows the end of that tag; when none of them occurs the parse fails with
\* "SOAP Body start tag not found", whether or not an end tag occurs, and
\* with no other envelope does it fail with this error.
C16_SeekBody ==
    phase = "parsed" =>
        /\ StartTagsIn(arg) = {} <=> ret = ParseErr(<<"S","O","A","P"," ","B","o","d","y",
                                                      " ","s","t","a","r","t"," ","t","a",
                                                      "g"," ","n","o","t"," ","f","o","u",
                                                      "n","d">>)
        /\ ret.kind = "Ok" =>
              ContinuesFrom(arg, ret.body_xml,
                            EndOfTag(arg, AcceptedStartTags[Min(StartTagsIn(arg))]))

\* an envelope with a <Body> tag before its <SOAP-ENV:Body> tag has been
\* parsed from the end of the <SOAP-ENV:Body> tag
C16_Witness ==
    /\ phase = "parsed"
    /\ arg = <<"<","B","o","d","y",">","<","S","O","A","P","-","E","N","V",":","B","o","d",
               "y",">","<","A","d","d","/",">","<","/","S","O","A","P","-","E","N","V",":",
               "B","o","d","y",">","<","/","B","o","d","y",">">>
    /\ ret.kind = "Ok"
    /\ ret.body_xml = <<"<","A","d","d","/",">">>

\* xml has exactly one Body start tag and exactly one Body end tag, both of
\* dialect k, the end tag after the start tag
HasOneBody(xml, k) ==
    /\ \A j \in BodyTagDialects \ {k} :
          /\ Occurrences(xml, body_start_patterns[j]) = {}
          /\ Occurrences(xml, body_end_patterns[j]) = {}
    /\ Cardinality(Occurrences(xml, body_start_patterns[k])) = 1
    /\ Cardinality(Occurrences(xml, body_end_patterns[k])) = 1
    /\ EndOfTag(xml, body_start_patterns[k]) <= Min(Occurrences(xml, body_end_patterns[k]))

\* what stands between the Body tags of dialect k of xml
BodyContent(xml, k) ==
    Slice(xml, EndOfTag(xml, body_start_patterns[k]),
          Min(Occurrences(xml, body_end_patterns[k])))

\* c can start the name of an element
IsNameStart(c) == is_ascii_alphabetic(c) \/ c = "_"

\* the offsets of s at which the start tag of an element opens
ElementsIn(s) == {i \in 0..(Len(s) - 2) : s[i + 1] = "<" /\ IsNameStart(s[i + 2])}

\* s is white space, or one comment in white space
IsMisc(s) ==
    \/ Trim(s) = << >>
    \/ /\ StartsWith(Trim(s), <<"<","!","-","-">>)
       /\ EndsWith(Trim(s), <<"-","-",">">>)
       /\ Cardinality(Occurrences(Trim(s), <<"-","-",">">>)) = 1

\* the name of the tag that opens at offset i of s: what follows the bracket
\* up to white space, a slash or the closing bracket
TagName(s, i) ==
    Slice(s, i + 1,
          Min({j \in (i + 1)..Len(s) : j = Len(s) \/ s[j + 1] \in {" ", "\n", "/", ">"}}))

\* the local name of a qualified name
LocalName(name) == AfterLast(name, ":")

\* the parsed request ret names the first child element of content, when
\* that element follows nothing but white space and comments, and is an
\* error when content holds no element and no markup
NamesFirstChild(content, elements, parsed) ==
    /\ (elements # {} /\ IsMisc(Slice(content, 0, Min(elements)))) =>
          /\ parsed.kind = "Ok"
          /\ parsed.operation = LocalName(TagName(content, Min(elements)))
    /\ Occurrences(content, <<"<">>) = {} => parsed.kind = "Err"

\* the positions of events that follow the first Body start tag, up to the
\* first element or end tag after it
AfterBodyStart(events) ==
    {i \in 2..Len(events) :
        \E b \in 1..(i - 1) :
            /\ events[b].type = "Start" /\ IsBodyName(events[b].name)
            /\ \A k \in 1..(b - 1) :
                  events[k].type \in {"Text", "Other"}
            /\ \A k \in (b + 1)..(i - 1) : events[k].type \in {"Text", "Other"}}

\* the parsed request names the element of the event at the first position
\* of after, when that event is the first child element of the Body, and is
\* an error when that event closes the Body
NamesFirstChildEvent(events, after, parsed) ==
    after # {} =>
        /\ events[Max(after)].type \in {"Start", "Empty"} =>
              /\ parsed.kind = "Ok"
              /\ parsed.operation = LocalName(events[Max(after)].name)
        /\ events[Max(after)].type = "End" => parsed.kind = "Err"

\* C17: the operation name of a parsed envelope is the local name of the
\* first child element of the Body, without namespace prefix, attributes or
\* self-closing slash; a Body without child element is an error.
C17_OperationIsLocalName ==
    /\ phase = "parsed" =>
          \A k \in BodyTagDialects :
              HasOneBody(arg, k) =>
                  NamesFirstChild(BodyContent(arg, k), ElementsIn(BodyContent(arg, k)),
                                  ret)
    /\ phase = "read" => NamesFirstChildEvent(arg, AfterBodyStart(arg), ret)

\* the offset of s just after the closing bracket of the tag that opens at
\* offset i (beyond the end of s when the tag is not closed)
TagEnd(s, i) == Min({j \in (i + 1)..(Len(s) + 1) : j = Len(s) + 1 \/ s[j] = ">"})

\* the tag that opens at offset i of s is an empty-element tag
IsSelfClosing(s, i) == TagEnd(s, i) <= Len(s) /\ s[TagEnd(s, i) - 1] = "/"

\* the offsets of s at which a start tag of the element name opens, and
\* those at which an end tag of it opens
StartTagsOf(s, name) ==
    {i \in Occurrences(s, <<"<">> \o name) : TagName(s, i) = name /\ ~IsSelfClosing(s, i)}
EndTagsOf(s, name) == Occurrences(s, <<"<","/">> \o name \o <<">">>)

\* the end tags of name that close the element whose start tag opens at
\* offset i: as many start tags as end tags of that name from i up to them
ClosingTags(s, i, starts, ends) ==
    {x \in ends :
        /\ x > i
        /\ Cardinality({o \in starts : i <= o /\ o < x})
               = Cardinality({y \in ends : i < y /\ y <= x})}

\* the offset of s just after the element whose tag opens at offset i, the
\* tags that close it being closing
SubtreeEnd(s, i, closing) ==
    IF IsSelfClosing(s, i) THEN TagEnd(s, i)
    ELSE Min(closing) + Len(TagName(s, i)) + 3

\* the element of s at offset i is well balanced
HasSubtree(s, i, closing) ==
    TagEnd(s, i) <= Len(s) /\ (IsSelfClosing(s, i) \/ closing # {})

\* fragment is the subtree of the first child element of content, which
\* opens at offset i
IsSubtreeAt(content, i, closing, fragment) ==
    HasSubtree(content, i, closing) =>
        fragment = Slice(content, i, SubtreeEnd(content, i, closing))

IsSubtreeOfFirstChild(content, elements, fragment) ==
    (elements # {} /\ IsMisc(Slice(content, 0, Min(elements)))) =>
        IsSubtreeAt(content, Min(elements),
                    ClosingTags(content, Min(elements),
                                StartTagsOf(content, TagName(content, Min(elements))),
                                EndTagsOf(content, TagName(content, Min(elements)))),
                    fragment)

\* the depth of the elements open after the events written
Depth(written) ==
    Cardinality({i \in 1..Len(written) : written[i].type = "Start"})
        - Cardinality({i \in 1..Len(written) : written[i].type = "End"})

\* written, the events captured from events, are those of one element that
\* is closed by its last event and not before, or of an element never closed
IsSubtreeEvents(written) ==
    /\ written # << >>
    /\ written[1].type = "Start"
    /\ \A n \in 1..(Len(written) - 1) : Depth(SubSeq(written, 1, n)) > 0

\* C18: the body fragment of a parsed envelope is exactly the well-balanced
\* subtree of the operation element, from its start tag to its matching end
\* tag: an element of the same name nested in it does not end the fragment,
\* and nothing after the subtree or around it is part of the fragment.
C18_FragmentIsSubtree ==
    /\ (phase = "parsed" /\ ret.kind = "Ok") =>
          \A k \in BodyTagDialects :
              HasOneBody(arg, k) =>
                  IsSubtreeOfFirstChild(BodyContent(arg, k),
                                        ElementsIn(BodyContent(arg, k)), ret.body_xml)
    /\ (phase = "read" /\ ret.kind = "Ok") => IsSubtreeEvents(ret.body_xml)

\* the first child element of content, which opens at offset i, or an
\* element inside it is never closed
IsUnbalancedAt(content, i, closing) ==
    \/ ~HasSubtree(content, i, closing)
    \/ \E j \in ElementsIn(content) :
          /\ i < j /\ j < SubtreeEnd(content, i, closing)
          /\ ~HasSubtree(content, j,
                         ClosingTags(content, j, StartTagsOf(content, TagName(content, j)),
                                     EndTagsOf(content, TagName(content, j))))

IsUnbalanced(content, elements) ==
    /\ elements # {}
    /\ IsMisc(Slice(content, 0, Min(elements)))
    /\ IsUnbalancedAt(content, Min(elements),
                      ClosingTags(content, Min(elements),
                                  StartTagsOf(content, TagName(content, Min(elements))),
                                  EndTagsOf(content, TagName(content, Min(elements)))))

\* the events end before the Body that opens in them is closed
EndsInBody(events) ==
    /\ \E b \in 1..Len(events) : events[b].type = "Start" /\ IsBodyName(events[b].name)
    /\ \A i \in 1..Len(events) : events[i].type # "Err"
    /\ ~\E i \in 1..Len(events) : events[i].type = "End" /\ IsBodyName(events[i].name)

\* C19: an envelope whose XML is unbalanced (the operation element or an
\* element inside it is never closed, or the input ends before the Body is
\* closed) is rejected by the parsers with an error; no parse succeeds with
\* a truncated body fragment.
C19_UnbalancedRejected ==
    /\ phase = "parsed" =>
          \A k \in BodyTagDialects :
              (HasOneBody(arg, k)
                  /\ IsUnbalanced(BodyContent(arg, k), ElementsIn(BodyContent(arg, k))))
                  => ret.kind = "Err"
    /\ phase = "read" =>
          /\ EndsInBody(arg) => ret.kind = "Err"
          /\ ret.kind = "Ok" => Depth(ret.body_xml) = 0

\* the value of the attribute that opens at offset i of xml with the text
\* open, which ends with the quote before the value
ValueAt(xml, open, i) ==
    Slice(xml, i + Len(open),
          Min({j \in (i + Len(open))..Len(xml) : j = Len(xml) \/ xml[j + 1] = "\""}))

\* the namespace of the envelope xml, its targetNamespace attributes opening
\* at the offsets targets and its default namespace declarations at the
\* offsets defaults: the first targetNamespace, else the first default
\* namespace, else none
DiscoveredFrom(xml, targets, defaults) ==
    IF targets # {} THEN Some(ValueAt(xml, <<"t","a","r","g","e","t","N","a","m","e","s",
                                             "p","a","c","e","=","\"">>, Min(targets)))
    ELSE IF defaults # {} THEN Some(ValueAt(xml, <<"x","m","l","n","s","=","\"">>, Min(defaults)))
    ELSE NoneV

DiscoveredNamespace(xml) ==
    DiscoveredFrom(xml, Occurrences(xml, <<"t","a","r","g","e","t","N","a","m","e","s","p",
                                           "a","c","e","=","\"">>),
                   Occurrences(xml, <<"x","m","l","n","s","=","\"">>))

\* the envelopes a and b are the same from their <soap:Body> tag on
SameBody(a, b) ==
    /\ Contains(a, <<"<","s","o","a","p",":","B","o","d","y",">">>) /\ Contains(b, <<"<","s","o","a","p",":","B","o","d",
                                                     "y",">">>)
    /\ Slice(a, Unwrap(Find(a, <<"<","s","o","a","p",":","B","o","d","y",">">>)), Len(a))
           = Slice(b, Unwrap(Find(b, <<"<","s","o","a","p",":","B","o","d","y",">">>)), Len(b))

\* the parsed requests a and b differ at most in their namespace
SameParse(a, b) ==
    a.kind = b.kind /\ a.operation = b.operation /\ a.body_xml = b.body_xml

\* the requests a and b differ at most in the namespace of their envelopes
SameButNamespace(a, b) ==
    /\ a.parsed.kind = "Ok" /\ b.parsed.kind = "Ok"
    /\ a.parsed.operation = b.parsed.operation
    /\ a.de.ok = b.de.ok /\ a.res = b.res /\ a.ser = b.ser

\* the same operation was dispatched for a and b and the status is the same
SameDispatch(a, b) ==
    /\ a.matched = b.matched
    /\ a.invoked = b.invoked
    /\ a.stages = b.stages
    /\ a.status = b.status

\* C20: the namespace of a parsed envelope is the value of its first
\* targetNamespace attribute, else of its first default xmlns declaration,
\* else none; an envelope without namespace is parsed like the same envelope
\* with one, and the namespace changes neither the operation dispatched nor
\* the status of the response.
C20_NamespaceDiscovery ==
    /\ \A r \in Requests :
          reqs[r].parsed.kind = "Ok" =>
              reqs[r].parsed.namespace = DiscoveredNamespace(reqs[r].xml)
    /\ \A r, q \in Requests :
          (r < q /\ reqs[r].pc # "idle" /\ reqs[q].pc # "idle"
              /\ SameBody(reqs[r].xml, reqs[q].xml)) => SameParse(reqs[r].parsed, reqs[q].parsed)
    /\ \A r, q \in Requests :
          (r < q /\ reqs[r].pc = "done" /\ reqs[q].pc = "done"
              /\ SameButNamespace(reqs[r], reqs[q])) => SameDispatch(reqs[r], reqs[q])

\* the same call has been answered in an envelope with no namespace and in
\* an envelope with a targetNamespace and a default namespace
C20_Witness ==
    /\ reqs[1].pc = "done" /\ reqs[2].pc = "done"
    /\ reqs[1].parsed.namespace = NoneV
    /\ reqs[2].parsed.namespace = Some(<<"u","r","n",":","a">>)
    /\ reqs[1].parsed.operation = reqs[2].parsed.operation
    /\ reqs[1].status = 200 /\ reqs[2].status = 200

----------------------------------------------------------------------------
(* Entity decoding *)

RECURSIVE EscapeXml(_)
\* the entity-escaped form of a text: each of the five special characters is
\* written as its entity
EscapeXml(s) ==
    IF s = << >> THEN << >>
    ELSE (CASE Head(s) = "<" -> <<"&","l","t",";">>
            [] Head(s) = ">" -> <<"&","g","t",";">>
            [] Head(s) = "&" -> <<"&","a","m","p",";">>
            [] Head(s) = "\"" -> <<"&","q","u","o","t",";">>
            [] Head(s) = "'" -> <<"&","a","p","o","s",";">>
            [] OTHER -> <<Head(s)>>) \o EscapeXml(Tail(s))

RECURSIVE DecodedOnce(_)
\* the text in which each entity occurrence of c, read from left to right,
\* stands as its character
DecodedOnce(c) ==
    IF c = << >> THEN << >>
    ELSE IF StartsWith(c, <<"&","l","t",";">>) THEN <<"<">> \o DecodedOnce(SubSeq(c, 5, Len(c)))
    ELSE IF StartsWith(c, <<"&","g","t",";">>) THEN <<">">> \o DecodedOnce(SubSeq(c, 5, Len(c)))
    ELSE IF StartsWith(c, <<"&","a","m","p",";">>) THEN <<"&">> \o DecodedOnce(SubSeq(c, 6, Len(c)))
    ELSE IF StartsWith(c, <<"&","q","u","o","t",";">>) THEN <<"\"">> \o DecodedOnce(SubSeq(c, 7, Len(c)))
    ELSE IF StartsWith(c, <<"&","a","p","o","s",";">>) THEN <<"'">> \o DecodedOnce(SubSeq(c, 7, Len(c)))
    ELSE <<Head(c)>> \o DecodedOnce(Tail(c))

\* the content of the element v in <r><v>content</v></r>
ValueContent(xml) == Slice(xml, 6, Len(xml) - 8)

\* content is the entity-escaped form of the text s
IsEscapedFormOf(content, s) == EscapeXml(s) = content

\* C21: entity decoding turns each occurrence of the five entities into its
\* character exactly once: whenever the content of the element read is the
\* entity-escaped form of a text s, the value extracted is s.
C21_DecodeRoundTrip ==
    (phase = "value" /\ StartsWith(arg, <<"<","r",">","<","v",">">>)
        /\ IsEscapedFormOf(ValueContent(arg), DecodedOnce(ValueContent(arg))))
    => ret = Some(DecodedOnce(ValueContent(arg)))

----------------------------------------------------------------------------
(* Schema of a descriptor *)

RECURSIVE XsdTable(_)
\* the table of XSD types by kind
XsdTable(kind) ==
    CASE kind.kind = "String" -> <<"x","s","d",":","s","t","r","i","n","g">>
      [] kind.kind = "I32" -> <<"x","s","d",":","i","n","t">>
      [] kind.kind = "I64" -> <<"x","s","d",":","l","o","n","g">>
      [] kind.kind = "F32" -> <<"x","s","d",":","f","l","o","a","t">>
      [] kind.kind = "F64" -> <<"x","s","d",":","d","o","u","b","l","e">>
      [] kind.kind = "Bool" -> <<"x","s","d",":","b","o","o","l","e","a","n">>
      [] kind.kind = "Custom" -> <<"t","n","s",":">> \o kind.name \o <<"T","y","p","e">>
      [] kind.kind = "Optional" -> XsdTable(kind.inner)
      [] OTHER -> XsdTable(kind.inner)

FieldElementOpen == <<" "," "," "," "," "," "," "," "," "," "," "," "," "," "," "," "," ",
                      " "," "," ","<","x","s","d",":","e","l","e","m","e","n","t"," ","n",
                      "a","m","e","=","\"">>

\* the lines of a schema text that hold the element of a field
FieldElements(schema) == SelectSeq(Split(schema, "\n"), LAMBDA l : StartsWith(l, FieldElementOpen))

\* the value of the attribute written as open (name=") in the element line
LineAttr(line, open, at) ==
    IF ~IsSome(at) THEN NoneV
    ELSE Some(Slice(line, Unwrap(at) + Len(open),
              Unwrap(at) + Len(open)
                  + Unwrap(Find(Slice(line, Unwrap(at) + Len(open), Len(line)), <<"\"">>))))

TypeOfElement(line) == LineAttr(line, <<" ","t","y","p","e","=","\"">>, Find(line, <<" ","t","y","p","e","=","\"">>))
NameOfElement(line) == LineAttr(line, <<" ","n","a","m","e","=","\"">>, Find(line, <<" ","n","a","m","e","=","\"">>))
MinOccursOfElement(line) == LineAttr(line, <<" ","m","i","n","O","c","c","u","r","s","=",
                                             "\"">>, Find(line, <<" ","m","i","n","O","c","c","u","r",
                                                                          "s","=","\"">>))

\* the element line carries the XSD type of the table for the field's kind,
\* and minOccurs="0" exactly when the kind is Optional
IsElementOfKind(line, kind) ==
    /\ TypeOfElement(line) = Some(XsdTable(kind))
    /\ MinOccursOfElement(line) = (IF kind.kind = "Optional" THEN Some(<<"0">>) ELSE NoneV)

----------------------------------------------------------------------------
(* Descriptors of the catalog *)

TFloat == TypePath(<<<<"f","6","4">>>>)

\* the fields the request and response structs of the example services are
\* declared with, in their order of declaration
DeclaredFields(type_name) ==
    CASE type_name = <<"A","d","d","R","e","q","u","e","s","t">> ->
             << Field(<<"a">>, <<SerdeRename(<<"O","p","e","r","a","n","d","1">>)>>, TInt),
                Field(<<"b">>, <<SerdeRename(<<"O","p","e","r","a","n","d","2">>)>>, TInt) >>
      [] type_name = <<"A","d","d","R","e","s","p","o","n","s","e">> ->
             << Field(<<"s","u","m">>, <<SerdeRename(<<"R","e","s","u","l","t">>)>>, TInt) >>
      [] type_name = <<"M","u","l","t","i","p","l","y","R","e","q","u","e","s","t">> ->
             << Field(<<"x">>, <<SerdeRename(<<"F","i","r","s","t","N","u","m","b","e","r">>)>>, TFloat),
                Field(<<"y">>, <<SerdeRename(<<"S","e","c","o","n","d","N","u","m","b","e",
                                             "r">>)>>, TFloat),
                Field(<<"p","r","e","c","i","s","i","o","n">>, <<SerdeRename(<<"P","r","e","c","i","s","i","o","n">>)>>,
                      TypeGeneric(<<<<"O","p","t","i","o","n">>>>, <<GenericType(TypePath(<<<<"u","8">>>>))>>)) >>
      [] type_name = <<"M","u","l","t","i","p","l","y","R","e","s","p","o","n","s","e">> ->
             << Field(<<"r","e","s","u","l","t">>, <<SerdeRename(<<"P","r","o","d","u","c","t">>)>>, TFloat),
                Field(<<"f","o","r","m","u","l","a">>, <<SerdeRename(<<"C","a","l","c","u","l","a","t","i","o",
                                                   "n">>)>>, TString) >>
      [] OTHER -> << >>

\* the descriptors of the declared fields: names, wire names, kinds and
\* optionality, in declaration order
DeclaredDescriptors(type_name) ==
    analyze_struct_definition(
        DeriveInput(type_name, "struct", "named", DeclaredFields(type_name))).val.fields

\* the complex type written for type_name in a WSDL text, from its start tag
\* to the first end tag after it (empty when none is written)
ComplexTypeFrom(wsdl, at) ==
    IF ~IsSome(at) THEN << >>
    ELSE Slice(wsdl, Unwrap(at),
             Unwrap(at) + Unwrap(Find(Slice(wsdl, Unwrap(at), Len(wsdl)), <<"<","/","x","s","d",":","c","o","m",
                                                                            "p","l","e","x","T","y","p","e",">">>)))

ComplexTypeOf(wsdl, type_name) ==
    ComplexTypeFrom(wsdl, Find(wsdl, <<"<","x","s","d",":","c","o","m","p","l","e","x","T",
                                       "y","p","e"," ","n","a","m","e","=","\"">> \o type_name \o <<"T","y","p","e","\"",">">>))

\* the descriptor of type_name in the catalog lists the declared fields in
\* declaration order, and the complex type has one element per declared
\* field, named by its wire name, in the same order
DescribesDeclaration(types, elements, declared) ==
    /\ types.fields = declared
    /\ Len(elements) = Len(declared)
    /\ \A k \in 1..Len(declared) : NameOfElement(elements[k]) = Some(declared[k].xml_name)

DescribesType(types, wsdl, type_name) ==
    /\ type_name \in DOMAIN types
    /\ DescribesDeclaration(types[type_name], FieldElements(ComplexTypeOf(wsdl, type_name)),
                            DeclaredDescriptors(type_name))

\* C23: for every request or response type referenced by an operation, the
\* descriptor collect_types_from_operations places in the catalog lists the
\* type's fields in declaration order with their wire names and optionality,
\* and the complex type of the WSDL has one sequence element per declared
\* field in that order.
C23_FieldsInDeclarationOrder ==
    (wsdl_runs # << >> /\ collect_types_from_operations(operations).ok) =>
        \A k \in 1..Len(operations) :
            /\ operations[k].request_type.path =>
                   DescribesType(CollectedTypes(collect_types_from_operations(operations)),
                                 LastWsdl, extract_type_name(operations[k].request_type))
            /\ operations[k].response_type.path =>
                   DescribesType(CollectedTypes(collect_types_from_operations(operations)),
                                 LastWsdl, extract_type_name(operations[k].response_type))

----------------------------------------------------------------------------
(* Type names shared by operations *)

\* the fields of the struct a type path refers to: v2::AddRequest is a
\* struct of its own, any other path is the struct of the example services
\* named by its last segment
StructureOf(ty) ==
    IF ty.segments = << <<"v","2">>, <<"A","d","d","R","e","q","u","e","s","t">> >>
    THEN << Field(<<"f","a","c","t","o","r">>, << >>, TFloat) >>
    ELSE DeclaredFields(extract_type_name(ty))

\* the request and response types the operations refer to
ReferencedTypes(ops) ==
    {ops[k].request_type : k \in 1..Len(ops)} \cup {ops[k].response_type : k \in 1..Len(ops)}

\* two referenced types of one name and different structure
HasNameClash(referenced) ==
    \E s, t \in referenced :
        /\ s.path /\ t.path
        /\ extract_type_name(s) = extract_type_name(t)
        /\ StructureOf(s) # StructureOf(t)

\* every referenced type has the descriptor of its name in the catalog
SharesDescriptors(types, referenced) ==
    \A t \in referenced : t.path => extract_type_name(t) \in DOMAIN types

\* C24: a type name referenced by several operations resolves to one
\* descriptor shared by all of them, and when two operations reference
\* structurally different types of the same name the construction of the
\* catalog fails with a definition error.
C24_NameClashIsError ==
    wsdl_runs # << >> =>
        /\ HasNameClash(ReferencedTypes(operations))
               => ~collect_types_from_operations(operations).ok
        /\ collect_types_from_operations(operations).ok
               => SharesDescriptors(collect_types_from_operations(operations).val,
                                    ReferencedTypes(operations))

----------------------------------------------------------------------------
(* The operation table of the WSDL and of the dispatcher *)

OperationOpen == <<"<","o","p","e","r","a","t","i","o","n"," ","n","a","m","e","=","\"">>
SoapActionOpen == <<"<","s","o","a","p",":","o","p","e","r","a","t","i","o","n"," ","s","o",
                    "a","p","A","c","t","i","o","n","=","\"">>

\* the offsets among tags that lie in the element that opens with the tag
\* start open and ends with the end tag close
TagsWithin(wsdl, tags, inner, open, close) ==
    {i \in inner : /\ Min(TagsAt(wsdl, tags, open)) < i
                   /\ i < Min(TagsAt(wsdl, tags, close))}

\* the operation entries of the port type and of the binding, by offset
PortEntries(wsdl, tags) ==
    TagsWithin(wsdl, tags, TagsAt(wsdl, tags, OperationOpen), <<"<","p","o","r","t","T","y","p","e",
                                                                " ">>, <<"<","/","p","o","r","t","T","y","p",
                                                                                "e",">">>)
BindingEntries(wsdl, tags) ==
    TagsWithin(wsdl, tags, TagsAt(wsdl, tags, OperationOpen), <<"<","b","i","n","d","i","n","g"," ">>, <<"<","/","b","i","n","d","i","n","g",
                                                                               ">">>)

RECURSIVE QuotedFrom(_, _)
\* the text of wsdl from its j-th character up to the next quote
QuotedFrom(wsdl, j) ==
    IF j > Len(wsdl) THEN << >>
    ELSE IF wsdl[j] = "\"" THEN << >>
    ELSE <<wsdl[j]>> \o QuotedFrom(wsdl, j + 1)

\* the value of the attribute of the tag at offset i that the tag start open
\* ends with
AttrAt(wsdl, open, i) == QuotedFrom(wsdl, i + Len(open) + 1)

\* the operation names of the entries
NamesOf(wsdl, entries) == {AttrAt(wsdl, OperationOpen, i) : i \in entries}

\* handle_soap_request has a block that is entered for the operation name
Dispatches(ops, operation) == MatchOperation(ops, operation) # 0

\* the service whose module the macro has expanded
RoutedService(cfg) == CHOOSE service \in RoutedServices : service.config = cfg

\* the names the dispatcher is asked for: those of the WSDL, those derived
\* from the functions of the module and those of the requests parsed
AskedNames(port_names, binding_names, items, requests) ==
    port_names \cup binding_names
        \cup {generate_operation_name(items[k].ident) : k \in 1..Len(items)}
        \cup {requests[r].parsed.operation : r \in DOMAIN requests}

\* the dispatcher, the port type and the binding hold the same names
SameNames(ops, port_names, binding_names, asked) ==
    \A n \in asked :
        /\ Dispatches(ops, n) <=> n \in port_names
        /\ Dispatches(ops, n) <=> n \in binding_names

\* every binding entry holds one soap:operation, whose action is
\* namespace/operationName
HasSoapActions(wsdl, cfg, entries, actions) ==
    /\ Cardinality(actions) = Cardinality(entries)
    /\ \A i \in entries :
           /\ \E j \in actions : j > i
           /\ AttrAt(wsdl, SoapActionOpen, Min({j \in actions : j > i}))
                  = cfg.namespace \o <<"/">> \o AttrAt(wsdl, OperationOpen, i)

\* a function of the module is dispatched to and listed exactly when it is
\* public and async
ListsPublicAsync(ops, items, port_names) ==
    \A k \in 1..Len(items) :
        /\ (items[k].public /\ items[k].asyncness)
               <=> generate_operation_name(items[k].ident) \in port_names
        /\ (items[k].public /\ items[k].asyncness)
               <=> Dispatches(ops, generate_operation_name(items[k].ident))

\* a request that was parsed was matched with a block exactly when the WSDL
\* lists its operation
MatchedIfListed(requests, port_names) ==
    \A r \in DOMAIN requests :
        requests[r].parsed.kind = "Ok" =>
            (requests[r].matched # 0 <=> requests[r].parsed.operation \in port_names)

SameOperationTable(wsdl, tags, cfg, ops, items, requests, port_names, binding_names) ==
    /\ SameNames(ops, port_names, binding_names,
                 AskedNames(port_names, binding_names, items, requests))
    /\ HasSoapActions(wsdl, cfg, BindingEntries(wsdl, tags),
                      TagsAt(wsdl, tags, SoapActionOpen))
    /\ ListsPublicAsync(ops, items, port_names)
    /\ MatchedIfListed(requests, port_names)

TableOfWsdl(wsdl, tags, cfg, ops, items, requests) ==
    SameOperationTable(wsdl, tags, cfg, ops, items, requests,
                       NamesOf(wsdl, PortEntries(wsdl, tags)),
                       NamesOf(wsdl, BindingEntries(wsdl, tags)))

----------------------------------------------------------------------------
(* Handlers that derive one operation name *)

\* the handlers of the operation table that derive the operation name
HandlersOf(ops, operation) == {k \in 1..Len(ops) : ops[k].name = operation}

\* the operation names that more than one handler derives
SharedNames(ops) ==
    {ops[k].name : k \in {j \in 1..Len(ops) : Cardinality(HandlersOf(ops, ops[j].name)) > 1}}

\* a request that carries the name was dispatched to the handler declared
\* first, and no other handler was invoked for it
ReachesFirst(ops, request, operation) ==
    (request.parsed.kind = "Ok" /\ request.parsed.operation = operation) =>
        /\ request.matched = Min(HandlersOf(ops, operation))
        /\ request.invoked \in { << >>, <<ops[Min(HandlersOf(ops, operation))].function_name>> }

\* no request invokes a handler declared later
NeverInvokesLater(ops, requests, operation) ==
    \A r \in DOMAIN requests :
        \A k \in HandlersOf(ops, operation) \ {Min(HandlersOf(ops, operation))} :
            /\ requests[r].matched # k
            /\ requests[r].invoked # <<ops[k].function_name>>

\* the port type lists the name once per handler
ListedPerHandler(wsdl, entries, ops, operation) ==
    Cardinality({i \in entries : AttrAt(wsdl, OperationOpen, i) = operation})
        = Cardinality(HandlersOf(ops, operation))

SharedNameGoesToFirst(wsdl, tags, ops, requests, operation) ==
    /\ \A r \in DOMAIN requests : ReachesFirst(ops, requests[r], operation)
    /\ NeverInvokesLater(ops, requests, operation)
    /\ ListedPerHandler(wsdl, PortEntries(wsdl, tags), ops, operation)

\* C26: when two handlers of a module derive the same operation name, the
\* service is constructed all the same, every request that carries the name
\* is dispatched to the handler declared first, the later handler is invoked
\* by no request, and the WSDL lists the name once per handler.
C26_FirstHandlerWins ==
    /\ extract_soap_operations(RoutedService(config).items).ok
    /\ operations = extract_soap_operations(RoutedService(config).items).val
    /\ \A operation \in SharedNames(operations) :
           SharedNameGoesToFirst(wsdl_runs[1], TagOffsets(wsdl_runs[1]), operations, reqs,
                                 operation)

\* add_numbers and add__numbers both derive AddNumbers; one request that
\* carries the name waits for add_numbers and another was answered
C26_Witness ==
    /\ SharedNames(operations) = { <<"A","d","d","N","u","m","b","e","r","s">> }
    /\ HandlersOf(operations, <<"A","d","d","N","u","m","b","e","r","s">>) = {2, 3}
    /\ operations[3].function_name = <<"a","d","d","_","_","n","u","m","b","e","r","s">>
    /\ \E r, q \in Requests :
           /\ r # q
           /\ reqs[r].pc = "awaiting" /\ reqs[r].parsed.operation = <<"A","d","d","N","u","m","b","e","r",
                                                                      "s">>
           /\ reqs[r].invoked = << <<"a","d","d","_","n","u","m","b","e","r","s">> >>
           /\ reqs[q].pc = "done" /\ reqs[q].parsed.operation = <<"A","d","d","N","u","m","b","e","r",
                                                                  "s">>
           /\ reqs[q].matched = 2

----------------------------------------------------------------------------
(* The Body tags that delimit the body *)

\* the offsets in from..(to - 1) at which the tag occurs in xml
TagsBetween(xml, tag, from, to) == {i \in Occurrences(xml, tag) : from <= i /\ i < to}

\* the Body end tag of dialect k at offset j closes the Body start tag of
\* that dialect which ends at offset from: the Body elements of the dialect
\* that open between the two are closed there, and no end tag before j
\* closes the start tag
ClosesBodyAt(xml, k, from, j) ==
    /\ Cardinality(TagsBetween(xml, body_start_patterns[k], from, j))
           = Cardinality(TagsBetween(xml, body_end_patterns[k], from, j))
    /\ \A e \in TagsBetween(xml, body_end_patterns[k], from, j) :
           Cardinality(TagsBetween(xml, body_start_patterns[k], from, e))
               > Cardinality(TagsBetween(xml, body_end_patterns[k], from, e))

\* body is the content of the Body element of dialect k whose start tag ends
\* at offset from
IsContentOfBody(xml, k, from, body) ==
    \E j \in TagsBetween(xml, body_end_patterns[k], from, Len(xml)) :
        /\ ClosesBodyAt(xml, k, from, j)
        /\ body = Trim(Slice(xml, from, j))

\* C27: in every successful parse by parse_soap_envelope, the Body end tag
\* that delimits the body has the prefix dialect of the Body start tag that
\* was matched and is the end tag that closes that start tag, so that the
\* body extracted is the content of one Body element.
C27_BodyTagsPaired ==
    (phase = "parsed" /\ ret.kind = "Ok") =>
        IsContentOfBody(arg, Min(StartTagsIn(arg)),
                        EndOfTag(arg, body_start_patterns[Min(StartTagsIn(arg))]),
                        ret.body_xml)

============================================================================
